---- MODULE Spec2Model ----
(***************************************************************************)
(* A model of cmdparse (src/lib.rs): the argument tokenizer               *)
(* (Context::prep_args), the option and command registries                *)
(* (LocalContext::add_option, Context::add_command) and the validation    *)
(* engine (LocalContext::parse, Opt::validate, Cmd::validate).            *)
(*                                                                         *)
(* Strings are sequences of one-character strings, so that the tokenizer  *)
(* works on characters as the code does.  Option<T> is a sequence of      *)
(* length 0 (None) or 1 (Some).  An Rc<RefCell<Res>> is an index into     *)
(* `results`, an Rc<RefCell<bool>> an index into `cmd_results`; a         *)
(* HashMap is a function whose domain is the set of its keys.             *)
(* The help printer (print_help, print_opt, alignment, print_options,     *)
(* the Hidden flag and the descriptions) is not modelled.                 *)
(***************************************************************************)
EXTENDS Integers, Sequences, FiniteSets, TLC

VARIABLES
  raw_args,       \* Context.raw_args: the tokens not consumed yet
  residual_args,  \* Context.residual_args: the leftover arguments
  inner_ctx,      \* Context.inner_ctx: the top-level LocalContext
  commands,       \* Context.commands: name -> Cmd
  results,        \* the Res cells (passed, values) behind the Opt handles
  cmd_results,    \* the bool cells behind the CmdRes handles
  args,           \* history: the argument vector given to Context::new
  handles,        \* history: the Opt handles add_option returned with Ok
  cmd_handles,    \* history: the CmdRes handles add_command returned with Ok
  nregs,          \* history: number of add_option and add_command calls made
  ncalls,         \* history: number of validate() calls made
  last,           \* history: what the last validate() call returned (None: no call yet)
  trace,          \* history: one event per token popped by parse, all calls
  rets,           \* history: the take_value / take_values calls made and what they returned
  cur,            \* the command whose &mut Cmd (returned by add_command) is held; None: none
  regs            \* history: the add_option / add_command calls made, their inputs and results

vars == <<raw_args, residual_args, inner_ctx, commands, results, cmd_results,
          args, handles, cmd_handles, nregs, ncalls, last, trace, rets,
          cur, regs>>

-----------------------------------------------------------------------------
(* Bounds of the model.                                                    *)

MaxArgs == 3

MaxRegs == 3

MaxCalls == 2

(* take_value / take_values calls *)
MaxTakes == 2

-----------------------------------------------------------------------------
(* Option<T>.                                                              *)

None == << >>

Some(x) == <<x>>

IsSome(o) == Len(o) = 1

(* mod Flags *)
Defaults == 0

Unique == 1

Hidden == 2

TakesArg == 4

TakesOptionalArg == 8

(* The bits of a uint flag word, and bitwise "and" by bits. *)
Bit(n, b) == (n \div b) % 2

BitAnd(x, y) ==
  LET B(b) == IF Bit(x, b) = 1 /\ Bit(y, b) = 1 THEN b ELSE 0
  IN B(1) + B(2) + B(4) + B(8)

(* Opt::has_flag *)
has_flag(opt, flags) == BitAnd(opt.flags, flags) # 0

(* RawArg constructors, RawArg::option and RawArg::value *)
Short(c) == [k |-> "Short", v |-> <<c>>]

Long(s) == [k |-> "Long", v |-> s]

Neither(s) == [k |-> "Neither", v |-> s]

option(rarg) == rarg.k # "Neither"

value(rarg) == rarg.v

(* Result<(), ~str>: Ok(()) or Err(format!(fmt, arg)) *)
Ok == [ok |-> TRUE, fmt |-> "", arg |-> << >>]

Err(fmt, arg) == [ok |-> FALSE, fmt |-> fmt, arg |-> arg]

FmtInvalidOption == "Invalid option : {:s}."

FmtUnexpectedArgument == "Unexpected argument : {:s}."

FmtDuplicateOption == "The option : {:s} was given more than once"

FmtMissingArgument == "Missing argument for option : {:s}"

FmtUnexpectedCommand == "Unexpected command : {:s}"

-----------------------------------------------------------------------------
(* Context::prep_args: the tokenizer.                                      *)

starts_with(s, p) == Len(s) >= Len(p) /\ SubSeq(s, 1, Len(p)) = p

slice_from(s, n) == SubSeq(s, n + 1, Len(s))

(* Mutant of splitn_eq_1: the text is cut at every '=' and the pieces     *)
(* after the second one are dropped.                                       *)
splitn_every_eq(s) ==
  LET eqs == {i \in 1..Len(s) : s[i] = "="}
  IN IF eqs = {} THEN <<s>>
     ELSE LET i == CHOOSE j \in eqs : \A m \in eqs : j <= m
              later == {m \in eqs : m > i}
              e == IF later = {} THEN Len(s) + 1
                   ELSE CHOOSE j \in later : \A m \in later : j <= m
          IN <<SubSeq(s, 1, i - 1), SubSeq(s, i + 1, e - 1)>>

(* Mutant of splitn_eq_1: the text is not cut at '='. *)
splitn_uncut(s) == <<s>>

(* s.splitn('=', 1): the pieces of s cut at its first '=', at most two. *)
splitn_eq_1(s) ==
  LET eqs == {i \in 1..Len(s) : s[i] = "="}
  IN IF eqs = {} THEN <<s>>
     ELSE LET i == CHOOSE j \in eqs : \A m \in eqs : j <= m
          IN <<SubSeq(s, 1, i - 1), SubSeq(s, i + 1, Len(s))>>

(* Mutants of prep_arg: only the first character of a short group gives  *)
(* a token; the tokens of a short group come out last character first.   *)
prep_arg_first_short(arg) ==
  IF starts_with(arg, <<"-", "-">>)
  THEN LET cit == splitn_eq_1(slice_from(arg, 2))
       IN <<Long(cit[1])>> \o (IF Len(cit) > 1 THEN <<Neither(cit[2])>> ELSE << >>)
  ELSE IF starts_with(arg, <<"-">>)
  THEN IF Len(arg) > 1 THEN <<Short(arg[2])>> ELSE << >>
  ELSE <<Neither(arg)>>

prep_arg_group_reversed(arg) ==
  IF starts_with(arg, <<"-", "-">>)
  THEN LET cit == splitn_eq_1(slice_from(arg, 2))
       IN <<Long(cit[1])>> \o (IF Len(cit) > 1 THEN <<Neither(cit[2])>> ELSE << >>)
  ELSE IF starts_with(arg, <<"-">>)
  THEN [i \in 1..(Len(arg) - 1) |-> Short(arg[Len(arg) + 1 - i])]
  ELSE <<Neither(arg)>>

(* The tokens one argument contributes (the body of the loop of          *)
(* prep_args).                                                            *)
prep_arg(arg) ==
  IF starts_with(arg, <<"-", "-">>)
  THEN LET cit == splitn_eq_1(slice_from(arg, 2))
       IN <<Long(cit[1])>> \o (IF Len(cit) > 1 THEN <<Neither(cit[2])>> ELSE << >>)
  ELSE IF starts_with(arg, <<"-">>)
  THEN [i \in 1..(Len(arg) - 1) |-> Short(arg[i + 1])]
  ELSE <<Neither(arg)>>

RECURSIVE prep_from(_, _)
prep_from(argv, i) ==
  IF i > Len(argv) THEN << >> ELSE prep_arg(argv[i]) \o prep_from(argv, i + 1)

(* Mutant of prep_args: the program name is read as an argument. *)
prep_args_with_program(argv) == prep_from(argv, 1)

(* skip(1): the program name produces nothing *)
prep_args(argv) == prep_from(argv, 2)

-----------------------------------------------------------------------------
(* std HashMap as used by the code.                                        *)

EmptyMap == << >>

(* HashMap::insert(k, v): an existing value for the key is replaced by the *)
(* new value; returns true iff the key did not already exist.              *)
insert(map, k, v) ==
  [map |-> [x \in (DOMAIN map) \cup {k} |-> IF x = k THEN v ELSE map[x]],
   fresh |-> k \notin DOMAIN map]

(* HashMap::find / find_equiv / find_mut *)
find(map, k) == IF k \in DOMAIN map THEN Some(map[k]) ELSE None

-----------------------------------------------------------------------------
(* LocalContext::new, Cmd::new, Res                                        *)

LocalContext_new == [loptions |-> EmptyMap, soptions |-> EmptyMap]

Res_new == [passed |-> 0, values |-> << >>]

-----------------------------------------------------------------------------
(* The validation engine.  The operators below thread a record            *)
(*   st = [rargs, residual, results, cmd_results, log]                    *)
(* holding what the code mutates through its &mut parameters and its      *)
(* RefCells, and return [st, res]: the state after, and the Result<>.     *)
(* st.log is history: one event per token popped by parse.  An event is   *)
(* written at the pop: the scope (None at top level, Some(name) in a      *)
(* command), the token (tok), the leftovers then pending (pending), what  *)
(* the lookup found (found, opt), the stream after the pop (rest); and    *)
(* completed when the match arm returns: its result (arm), the stream     *)
(* then (rest1) and, for a matched option, its Res cell before and after  *)
(* (cell0, cell1).                                                         *)

(* format!("Unexpected argument : {:s}.", residual_args.shift()), which   *)
(* Opt::validate, Cmd::validate and parse all return on pending leftovers *)
unexpected_argument(st) ==
  [st |-> [st EXCEPT !.residual = Tail(@)],
   res |-> Err(FmtUnexpectedArgument, Head(st.residual))]

(* Mutants of Opt_take_arg: the value is appended but left in the stream; *)
(* an optional value that is missing is an error.                         *)
Opt_take_arg_keeps_token(opt, opt_name, st) ==
  IF has_flag(opt, TakesArg + TakesOptionalArg)
  THEN IF Len(st.rargs) > 0 /\ ~option(Head(st.rargs))
       THEN [st |-> [st EXCEPT !.results[opt.result].values =
                                   Append(@, value(Head(st.rargs)))],
             res |-> Ok]
       ELSE IF has_flag(opt, TakesArg)
       THEN [st |-> st, res |-> Err(FmtMissingArgument, opt_name)]
       ELSE [st |-> st, res |-> Ok]
  ELSE [st |-> st, res |-> Ok]

Opt_take_arg_optional_required(opt, opt_name, st) ==
  IF has_flag(opt, TakesArg + TakesOptionalArg)
  THEN IF Len(st.rargs) > 0 /\ ~option(Head(st.rargs))
       THEN [st |-> [st EXCEPT !.rargs = Tail(@),
                               !.results[opt.result].values =
                                   Append(@, value(Head(st.rargs)))],
             res |-> Ok]
       ELSE [st |-> st, res |-> Err(FmtMissingArgument, opt_name)]
  ELSE [st |-> st, res |-> Ok]

(* Mutant of Opt_take_arg: a bare token that is the name of a registered  *)
(* command is not taken as a value.                                         *)
Opt_take_arg_yields_to_command(opt, opt_name, st) ==
  IF has_flag(opt, TakesArg + TakesOptionalArg)
  THEN IF /\ Len(st.rargs) > 0
          /\ ~option(Head(st.rargs))
          /\ value(Head(st.rargs)) \notin DOMAIN commands
       THEN [st |-> [st EXCEPT !.rargs = Tail(@),
                               !.results[opt.result].values =
                                   Append(@, value(Head(st.rargs)))],
             res |-> Ok]
       ELSE IF has_flag(opt, TakesArg)
       THEN [st |-> st, res |-> Err(FmtMissingArgument, opt_name)]
       ELSE [st |-> st, res |-> Ok]
  ELSE [st |-> st, res |-> Ok]

(* Mutant of Opt_take_arg: the count is taken back when the mandatory     *)
(* value is missing.                                                       *)
Opt_take_arg_missing_uncounted(opt, opt_name, st) ==
  IF has_flag(opt, TakesArg + TakesOptionalArg)
  THEN IF Len(st.rargs) > 0 /\ ~option(Head(st.rargs))
       THEN [st |-> [st EXCEPT !.rargs = Tail(@),
                               !.results[opt.result].values =
                                   Append(@, value(Head(st.rargs)))],
             res |-> Ok]
       ELSE IF has_flag(opt, TakesArg)
       THEN [st |-> [st EXCEPT !.results[opt.result].passed = @ - 1],
             res |-> Err(FmtMissingArgument, opt_name)]
       ELSE [st |-> st, res |-> Ok]
  ELSE [st |-> st, res |-> Ok]

(* Opt::validate, lines 150-160: the value of an option that takes one *)
Opt_take_arg(opt, opt_name, st) ==
  IF has_flag(opt, TakesArg + TakesOptionalArg)
  THEN IF Len(st.rargs) > 0 /\ ~option(Head(st.rargs))
       THEN [st |-> [st EXCEPT !.rargs = Tail(@),
                               !.results[opt.result].values =
                                   Append(@, value(Head(st.rargs)))],
             res |-> Ok]
       ELSE IF has_flag(opt, TakesArg)
       THEN [st |-> st, res |-> Err(FmtMissingArgument, opt_name)]
       ELSE [st |-> st, res |-> Ok]
  ELSE [st |-> st, res |-> Ok]

(* Mutants of Opt_validate: the count is rolled back when the option is a *)
(* duplicate; pending leftovers are not looked at.                        *)
Opt_validate_rollback(opt, opt_name, st) ==
  LET st1 == [st EXCEPT !.results[opt.result].passed = @ + 1]
  IN IF Len(st1.residual) # 0
     THEN unexpected_argument(st1)
     ELSE IF st1.results[opt.result].passed > 1 /\ has_flag(opt, Unique)
     THEN [st |-> st, res |-> Err(FmtDuplicateOption, opt_name)]
     ELSE Opt_take_arg(opt, opt_name, st1)

Opt_validate_ignores_pending(opt, opt_name, st) ==
  LET st1 == [st EXCEPT !.results[opt.result].passed = @ + 1]
  IN IF st1.results[opt.result].passed > 1 /\ has_flag(opt, Unique)
     THEN [st |-> st1, res |-> Err(FmtDuplicateOption, opt_name)]
     ELSE Opt_take_arg(opt, opt_name, st1)

(* Opt::validate *)
Opt_validate(opt, opt_name, st) ==
  LET st1 == [st EXCEPT !.results[opt.result].passed = @ + 1]
  IN IF Len(st1.residual) # 0
     THEN unexpected_argument(st1)
     ELSE IF st1.results[opt.result].passed > 1 /\ has_flag(opt, Unique)
     THEN [st |-> st1, res |-> Err(FmtDuplicateOption, opt_name)]
     ELSE Opt_take_arg(opt, opt_name, st1)

RECURSIVE parse(_, _, _, _)

(* Mutant of Cmd_validate: the name of the selected command is also put  *)
(* on the leftover list, after the command's own arguments.                *)
Cmd_validate_keeps_name(cmd, cmd_name, st) ==
  IF Len(st.residual) # 0
  THEN unexpected_argument(st)
  ELSE IF st.cmd_results[cmd.result]
  THEN [st |-> st, res |-> Err(FmtUnexpectedCommand, cmd_name)]
  ELSE LET r == parse(cmd.inner_ctx, EmptyMap, Some(cmd_name),
                      [st EXCEPT !.cmd_results[cmd.result] = TRUE])
       IN IF r.res.ok THEN [r EXCEPT !.st.residual = Append(@, cmd_name)] ELSE r

(* Mutant of Cmd_validate: the command's cell is not set. *)
Cmd_validate_unset(cmd, cmd_name, st) ==
  IF Len(st.residual) # 0
  THEN unexpected_argument(st)
  ELSE IF st.cmd_results[cmd.result]
  THEN [st |-> st, res |-> Err(FmtUnexpectedCommand, cmd_name)]
  ELSE parse(cmd.inner_ctx, EmptyMap, Some(cmd_name), st)

(* Cmd::validate *)
Cmd_validate(cmd, cmd_name, st) ==
  IF Len(st.residual) # 0
  THEN unexpected_argument(st)
  ELSE IF st.cmd_results[cmd.result]
  THEN [st |-> st, res |-> Err(FmtUnexpectedCommand, cmd_name)]
  ELSE parse(cmd.inner_ctx, EmptyMap, Some(cmd_name),
             [st EXCEPT !.cmd_results[cmd.result] = TRUE])

(* Mutant of Lookup: a flag is looked up in the top-level registry in     *)
(* every scope.                                                            *)
Lookup_top_level(ctx, cmds, raw_arg) ==
  CASE raw_arg.k = "Short" -> find(inner_ctx.soptions, raw_arg.v[1])
    [] raw_arg.k = "Long" -> find(inner_ctx.loptions, raw_arg.v)
    [] raw_arg.k = "Neither" -> find(cmds, raw_arg.v)

(* parse, lines 273-279: what the lookup of a popped token finds *)
Lookup(ctx, cmds, raw_arg) ==
  CASE raw_arg.k = "Short" -> find(ctx.soptions, raw_arg.v[1])
    [] raw_arg.k = "Long" -> find(ctx.loptions, raw_arg.v)
    [] raw_arg.k = "Neither" -> find(cmds, raw_arg.v)

(* Mutant of invalid_option: a flag that is not registered is skipped. *)
invalid_option_skipped(name, st) == [st |-> st, res |-> Ok]

(* parse, line 281: a flag that is not registered in this scope *)
invalid_option(name, st) == [st |-> st, res |-> Err(FmtInvalidOption, name)]

(* Mutant of push_residual: the leftover is put in front of the list. *)
push_residual_front(name, st) ==
  [st |-> [st EXCEPT !.residual = <<name>> \o @], res |-> Ok]

(* parse, line 282: a bare value that is no command of this scope *)
push_residual(name, st) ==
  [st |-> [st EXCEPT !.residual = Append(@, name)], res |-> Ok]

(* parse, lines 286-290: what parse returns when the arm returned Err *)
on_error(r) ==
  IF Len(r.st.residual) # 0 THEN unexpected_argument(r.st) ELSE r

(* LocalContext::parse; scope is None at top level, Some(name) in a command. *)
parse(ctx, cmds, scope, st) ==
  IF Len(st.rargs) = 0
  THEN [st |-> st, res |-> Ok]
  ELSE
    LET raw_arg == Head(st.rargs)
        found == Lookup(ctx, cmds, raw_arg)
        name == value(raw_arg)
        isopt == option(raw_arg) /\ IsSome(found)
        idx == Len(st.log) + 1
        ev == [scope |-> scope, tok |-> raw_arg, pending |-> st.residual,
               found |-> IsSome(found),
               opt |-> IF isopt THEN found ELSE None,
               rest |-> Tail(st.rargs), arm |-> Ok, rest1 |-> << >>,
               cell0 |-> Res_new, cell1 |-> Res_new]
        st1 == [st EXCEPT !.rargs = Tail(@), !.log = Append(@, ev)]
        r0 == IF option(raw_arg)
              THEN IF IsSome(found)
                   THEN Opt_validate(found[1], name, st1)
                   ELSE invalid_option(name, st1)
              ELSE IF IsSome(found)
                   THEN Cmd_validate(found[1], name, st1)
                   ELSE push_residual(name, st1)
        r == [r0 EXCEPT
                !.st.log[idx].arm = r0.res,
                !.st.log[idx].rest1 = r0.st.rargs,
                !.st.log[idx].cell0 =
                    IF isopt THEN st.results[found[1].result] ELSE Res_new,
                !.st.log[idx].cell1 =
                    IF isopt THEN r0.st.results[found[1].result] ELSE Res_new]
    IN IF ~r.res.ok THEN on_error(r) ELSE parse(ctx, cmds, scope, r.st)

-----------------------------------------------------------------------------
(* Registration.                                                           *)

(* add_option as it would be without the check of lines 313-315: an      *)
(* option without any name is accepted.                                    *)
LocalContext_add_option_nameless(ctx, long_name, short_name, flags, cell) ==
  LET opt == [long_name |-> long_name, short_name |-> short_name,
              flags |-> flags, result |-> cell]
      li == insert(ctx.loptions, long_name[1], opt)
      ctx1 == IF IsSome(long_name) THEN [ctx EXCEPT !.loptions = li.map] ELSE ctx
      si == insert(ctx1.soptions, short_name[1], opt)
      ctx2 == IF IsSome(short_name) THEN [ctx1 EXCEPT !.soptions = si.map] ELSE ctx1
  IN IF IsSome(long_name) /\ ~li.fresh
     THEN [ctx |-> ctx1, alloc |-> TRUE, opt |-> opt,
           res |-> Err("An option with the same long name was already added", << >>)]
     ELSE IF IsSome(short_name) /\ ~si.fresh
     THEN [ctx |-> ctx2, alloc |-> TRUE, opt |-> opt,
           res |-> Err("An option with the same short name was already added", << >>)]
     ELSE [ctx |-> ctx2, alloc |-> TRUE, opt |-> opt, res |-> Ok]

(* add_option as it would be if the result of soptions.insert() were     *)
(* ignored: a short name already there is replaced and Ok is returned.    *)
LocalContext_add_option_short_unchecked(ctx, long_name, short_name, flags, cell) ==
  LET opt == [long_name |-> long_name, short_name |-> short_name,
              flags |-> flags, result |-> cell]
      li == insert(ctx.loptions, long_name[1], opt)
      ctx1 == IF IsSome(long_name) THEN [ctx EXCEPT !.loptions = li.map] ELSE ctx
      si == insert(ctx1.soptions, short_name[1], opt)
      ctx2 == IF IsSome(short_name) THEN [ctx1 EXCEPT !.soptions = si.map] ELSE ctx1
  IN IF IsSome(long_name) /\ ~li.fresh
     THEN [ctx |-> ctx1, alloc |-> TRUE, opt |-> opt,
           res |-> Err("An option with the same long name was already added", << >>)]
     ELSE IF ~IsSome(long_name) /\ ~IsSome(short_name)
     THEN [ctx |-> ctx, alloc |-> FALSE, opt |-> opt,
           res |-> Err("An option needs either a short or a long name", << >>)]
     ELSE [ctx |-> ctx2, alloc |-> TRUE, opt |-> opt, res |-> Ok]

(* LocalContext::add_option on the context ctx, the next free Res cell    *)
(* being `cell`: [ctx, res, opt, alloc], alloc telling whether the new    *)
(* cell outlives the call (in the registry or in the returned handle).    *)
(* HashMap::insert has replaced the entry of a name that was already      *)
(* there when add_option returns its "already added" error.               *)
LocalContext_add_option(ctx, long_name, short_name, flags, cell) ==
  LET opt == [long_name |-> long_name, short_name |-> short_name,
              flags |-> flags, result |-> cell]
      li == insert(ctx.loptions, long_name[1], opt)
      ctx1 == IF IsSome(long_name) THEN [ctx EXCEPT !.loptions = li.map] ELSE ctx
      si == insert(ctx1.soptions, short_name[1], opt)
      ctx2 == IF IsSome(short_name) THEN [ctx1 EXCEPT !.soptions = si.map] ELSE ctx1
  IN IF IsSome(long_name) /\ ~li.fresh
     THEN [ctx |-> ctx1, alloc |-> TRUE, opt |-> opt,
           res |-> Err("An option with the same long name was already added", << >>)]
     ELSE IF ~IsSome(long_name) /\ ~IsSome(short_name)
     THEN [ctx |-> ctx, alloc |-> FALSE, opt |-> opt,
           res |-> Err("An option needs either a short or a long name", << >>)]
     ELSE IF IsSome(short_name) /\ ~si.fresh
     THEN [ctx |-> ctx2, alloc |-> TRUE, opt |-> opt,
           res |-> Err("An option with the same short name was already added", << >>)]
     ELSE [ctx |-> ctx2, alloc |-> TRUE, opt |-> opt, res |-> Ok]

(* add_option as it would be if a command's options shared the names of  *)
(* the top level: the command's registry starts from the top-level one.   *)
AddOption_shared_names(scope, long_name, short_name, flags) ==
  /\ nregs < MaxRegs
  /\ IsSome(scope) => scope = cur
  /\ LET own == IF IsSome(scope) THEN commands[scope[1]].inner_ctx ELSE inner_ctx
         ctx == [loptions |-> own.loptions @@ inner_ctx.loptions,
                 soptions |-> own.soptions @@ inner_ctx.soptions]
         r == LocalContext_add_option(ctx, long_name, short_name, flags,
                                      Len(results) + 1)
     IN /\ IF IsSome(scope)
           THEN /\ commands' = [commands EXCEPT ![scope[1]].inner_ctx = r.ctx]
                /\ UNCHANGED inner_ctx
           ELSE /\ inner_ctx' = r.ctx
                /\ UNCHANGED commands
        /\ results' = IF r.alloc THEN Append(results, Res_new) ELSE results
        /\ handles' = IF r.res.ok
                      THEN Append(handles, [scope |-> scope, opt |-> r.opt])
                      ELSE handles
        /\ regs' = Append(regs, [op |-> "add_option", scope |-> scope,
                                 long_name |-> long_name, short_name |-> short_name,
                                 flags |-> flags, res |-> r.res])
  /\ cur' = IF IsSome(scope) THEN cur ELSE None
  /\ nregs' = nregs + 1
  /\ UNCHANGED <<raw_args, residual_args, cmd_results, args, cmd_handles,
                 ncalls, last, trace, rets>>

(* OptGroup::add_option for Context (scope = None) and for Cmd           *)
(* (scope = Some(name), the command reached through add_command's &mut). *)
(* The &'a mut Cmd borrows the Context: a command's options are added    *)
(* while that reference is held, and a call on the Context ends it.      *)
AddOption(scope, long_name, short_name, flags) ==
  /\ nregs < MaxRegs
  /\ IsSome(scope) => scope = cur
  /\ LET ctx == IF IsSome(scope) THEN commands[scope[1]].inner_ctx ELSE inner_ctx
         r == LocalContext_add_option(ctx, long_name, short_name, flags,
                                      Len(results) + 1)
     IN /\ IF IsSome(scope)
           THEN /\ commands' = [commands EXCEPT ![scope[1]].inner_ctx = r.ctx]
                /\ UNCHANGED inner_ctx
           ELSE /\ inner_ctx' = r.ctx
                /\ UNCHANGED commands
        /\ results' = IF r.alloc THEN Append(results, Res_new) ELSE results
        /\ handles' = IF r.res.ok
                      THEN Append(handles, [scope |-> scope, opt |-> r.opt])
                      ELSE handles
        /\ regs' = Append(regs, [op |-> "add_option", scope |-> scope,
                                 long_name |-> long_name, short_name |-> short_name,
                                 flags |-> flags, res |-> r.res])
  /\ cur' = IF IsSome(scope) THEN cur ELSE None
  /\ nregs' = nregs + 1
  /\ UNCHANGED <<raw_args, residual_args, cmd_results, args, cmd_handles,
                 ncalls, last, trace, rets>>

(* add_command as it would be if the result of commands.insert() were    *)
(* ignored: the call always returns Ok, its handle and the &mut Cmd.      *)
AddCommand_unchecked(name) ==
  /\ nregs < MaxRegs
  /\ LET cmd == [inner_ctx |-> LocalContext_new, result |-> Len(cmd_results) + 1]
         ci == insert(commands, name, cmd)
     IN /\ commands' = ci.map
        /\ cmd_results' = Append(cmd_results, FALSE)
        /\ cmd_handles' = Append(cmd_handles, [name |-> name, result |-> cmd.result])
        /\ cur' = Some(name)
        /\ regs' = Append(regs, [op |-> "add_command", name |-> name, res |-> Ok])
  /\ nregs' = nregs + 1
  /\ UNCHANGED <<raw_args, residual_args, inner_ctx, results, args, handles,
                 ncalls, last, trace, rets>>

(* Context::add_command (Cmd::new allocates the command's bool cell);    *)
(* HashMap::insert has replaced a command of the same name by the new,   *)
(* empty one when add_command returns its error.                          *)
AddCommand(name) ==
  /\ nregs < MaxRegs
  /\ LET cmd == [inner_ctx |-> LocalContext_new, result |-> Len(cmd_results) + 1]
         ci == insert(commands, name, cmd)
     IN /\ commands' = ci.map
        /\ cmd_results' = Append(cmd_results, FALSE)
        /\ cmd_handles' = IF ci.fresh
                          THEN Append(cmd_handles, [name |-> name, result |-> cmd.result])
                          ELSE cmd_handles
        /\ cur' = IF ci.fresh THEN Some(name) ELSE None
        /\ regs' = Append(regs, [op |-> "add_command", name |-> name,
                                 res |-> IF ci.fresh THEN Ok
                                         ELSE Err("This command was already added", << >>)])
  /\ nregs' = nregs + 1
  /\ UNCHANGED <<raw_args, residual_args, inner_ctx, results, args, handles,
                 ncalls, last, trace, rets>>

(* Context::add_cmd_with(name, description, op), op being a closure that *)
(* adds one option to the command it is given: add_command(..).unwrap()   *)
(* ends the program when the name is taken, so the call returns only for  *)
(* a new name; the &mut Cmd lives for the call of op only.  nregs counts  *)
(* the call once; regs holds the add_command and the add_option made.     *)
AddCmdWith(name, long_name, short_name, flags) ==
  /\ nregs < MaxRegs
  /\ name \notin DOMAIN commands
  /\ LET r == LocalContext_add_option(LocalContext_new, long_name, short_name,
                                      flags, Len(results) + 1)
         cmd == [inner_ctx |-> r.ctx, result |-> Len(cmd_results) + 1]
     IN /\ commands' = insert(commands, name, cmd).map
        /\ cmd_results' = Append(cmd_results, FALSE)
        /\ cmd_handles' = Append(cmd_handles, [name |-> name, result |-> cmd.result])
        /\ results' = IF r.alloc THEN Append(results, Res_new) ELSE results
        /\ handles' = IF r.res.ok
                      THEN Append(handles, [scope |-> Some(name), opt |-> r.opt])
                      ELSE handles
        /\ regs' = regs \o
                   << [op |-> "add_command", name |-> name, res |-> Ok],
                      [op |-> "add_option", scope |-> Some(name),
                       long_name |-> long_name, short_name |-> short_name,
                       flags |-> flags, res |-> r.res] >>
  /\ cur' = None
  /\ nregs' = nregs + 1
  /\ UNCHANGED <<raw_args, residual_args, inner_ctx, args, ncalls, last, trace,
                 rets>>

-----------------------------------------------------------------------------
(* Mutants of Validate: the selection cells are cleared when the call     *)
(* starts; the call reads the arguments again from the start; the call    *)
(* looks at the first token of the stream only.                            *)
Validate_clears_cells ==
  /\ ncalls < MaxCalls
  /\ LET st0 == [rargs |-> raw_args, residual |-> residual_args,
                 results |-> results,
                 cmd_results |-> [i \in DOMAIN cmd_results |-> FALSE],
                 log |-> trace]
         r == parse(inner_ctx, commands, None, st0)
     IN /\ raw_args' = r.st.rargs
        /\ residual_args' = r.st.residual
        /\ results' = r.st.results
        /\ cmd_results' = r.st.cmd_results
        /\ trace' = r.st.log
        /\ last' = Some(r.res)
  /\ ncalls' = ncalls + 1
  /\ cur' = None
  /\ UNCHANGED <<inner_ctx, commands, args, handles, cmd_handles, nregs, rets,
                 regs>>

Validate_rereads_args ==
  /\ ncalls < MaxCalls
  /\ LET st0 == [rargs |-> prep_args(args), residual |-> residual_args,
                 results |-> results, cmd_results |-> cmd_results, log |-> trace]
         r == parse(inner_ctx, commands, None, st0)
     IN /\ raw_args' = r.st.rargs
        /\ residual_args' = r.st.residual
        /\ results' = r.st.results
        /\ cmd_results' = r.st.cmd_results
        /\ trace' = r.st.log
        /\ last' = Some(r.res)
  /\ ncalls' = ncalls + 1
  /\ cur' = None
  /\ UNCHANGED <<inner_ctx, commands, args, handles, cmd_handles, nregs, rets,
                 regs>>

Validate_first_token ==
  /\ ncalls < MaxCalls
  /\ LET first == IF raw_args = << >> THEN << >> ELSE <<Head(raw_args)>>
         others == IF raw_args = << >> THEN << >> ELSE Tail(raw_args)
         st0 == [rargs |-> first, residual |-> residual_args,
                 results |-> results, cmd_results |-> cmd_results, log |-> trace]
         r == parse(inner_ctx, commands, None, st0)
     IN /\ raw_args' = r.st.rargs \o others
        /\ residual_args' = r.st.residual
        /\ results' = r.st.results
        /\ cmd_results' = r.st.cmd_results
        /\ trace' = r.st.log
        /\ last' = Some(r.res)
  /\ ncalls' = ncalls + 1
  /\ cur' = None
  /\ UNCHANGED <<inner_ctx, commands, args, handles, cmd_handles, nregs, rets,
                 regs>>

(* Context::validate *)
Validate ==
  /\ ncalls < MaxCalls
  /\ LET st0 == [rargs |-> raw_args, residual |-> residual_args,
                 results |-> results, cmd_results |-> cmd_results, log |-> trace]
         r == parse(inner_ctx, commands, None, st0)
     IN /\ raw_args' = r.st.rargs
        /\ residual_args' = r.st.residual
        /\ results' = r.st.results
        /\ cmd_results' = r.st.cmd_results
        /\ trace' = r.st.log
        /\ last' = Some(r.res)
  /\ ncalls' = ncalls + 1
  /\ cur' = None
  /\ UNCHANGED <<inner_ctx, commands, args, handles, cmd_handles, nregs, rets,
                 regs>>

(* Accessors that only read: Opt::count, Opt::check, CmdRes::check,       *)
(* Context::get_args.                                                      *)
count(opt) == results[opt.result].passed

check(opt) == count(opt) # 0

CmdRes_check(cell) == cmd_results[cell]

get_args == residual_args

(* Either<L, R> *)
Left(x) == [side |-> "Left", val |-> x]

Right(x) == [side |-> "Right", val |-> x]

(* from_str::<int>: an optional '-' followed by one or more decimal       *)
(* digits gives Some(number), anything else None.                          *)
Digits == <<"0", "1", "2", "3", "4", "5", "6", "7", "8", "9">>

IsDigit(c) == \E d \in DOMAIN Digits : Digits[d] = c

DigitVal(c) == (CHOOSE d \in DOMAIN Digits : Digits[d] = c) - 1

RECURSIVE Decimal(_, _)
Decimal(s, acc) ==
  IF Len(s) = 0 THEN acc ELSE Decimal(Tail(s), 10 * acc + DigitVal(Head(s)))

from_str(s) ==
  LET body == IF Len(s) > 0 /\ Head(s) = "-" THEN Tail(s) ELSE s
  IN IF Len(body) > 0 /\ \A i \in DOMAIN body : IsDigit(body[i])
     THEN Some(IF body = s THEN Decimal(body, 0) ELSE 0 - Decimal(body, 0))
     ELSE None

(* Mutant of take_value: the value handed out stays in the list. *)
take_value_peeks(res) ==
  IF Len(res.values) > 0
  THEN [res |-> res, ret |-> Left(from_str(Head(res.values)))]
  ELSE [res |-> res, ret |-> Right(res.passed # 0)]

(* Mutant of take_value: an option without a value to hand out is         *)
(* reported as passed.                                                     *)
take_value_always_passed(res) ==
  IF Len(res.values) > 0
  THEN [res |-> [res EXCEPT !.values = Tail(@)],
        ret |-> Left(from_str(Head(res.values)))]
  ELSE [res |-> res, ret |-> Right(TRUE)]

(* Opt::take_value::<int> on the Res cell res: [res, ret], the cell after *)
(* and the value returned; values.shift_opt() removes the first value.    *)
take_value(res) ==
  IF Len(res.values) > 0
  THEN [res |-> [res EXCEPT !.values = Tail(@)],
        ret |-> Left(from_str(Head(res.values)))]
  ELSE [res |-> res, ret |-> Right(res.passed # 0)]

(* Mutants of take_values: values that do not parse are left out; an     *)
(* option without a captured value is reported as never passed.           *)
take_values_parsed_only(res) ==
  IF Len(res.values) = 0
  THEN Right(res.passed)
  ELSE Left(SelectSeq([i \in DOMAIN res.values |-> from_str(res.values[i])], IsSome))

take_values_unpassed(res) ==
  IF Len(res.values) = 0
  THEN Right(0)
  ELSE Left([i \in DOMAIN res.values |-> from_str(res.values[i])])

(* Opt::take_values::<int> on the Res cell res: the value returned. *)
take_values(res) ==
  IF Len(res.values) = 0
  THEN Right(res.passed)
  ELSE Left([i \in DOMAIN res.values |-> from_str(res.values[i])])

(* A call of take_value() on the k-th handle.  The record kept in rets    *)
(* holds the call, the handle, what was returned, and the number of       *)
(* validate() calls made before it.                                        *)
TakeValue(k) ==
  /\ Len(rets) < MaxTakes
  /\ k \in DOMAIN handles
  /\ LET c == handles[k].opt.result
         r == take_value(results[c])
     IN /\ results' = [results EXCEPT ![c] = r.res]
        /\ rets' = Append(rets, [op |-> "take_value", h |-> k, ret |-> r.ret,
                                 after |-> ncalls])
  /\ UNCHANGED <<raw_args, residual_args, inner_ctx, commands, cmd_results,
                 args, handles, cmd_handles, nregs, ncalls, last, trace,
                 cur, regs>>

(* A call of take_values() on the k-th handle. *)
TakeValues(k) ==
  /\ Len(rets) < MaxTakes
  /\ k \in DOMAIN handles
  /\ LET c == handles[k].opt.result
     IN rets' = Append(rets, [op |-> "take_values", h |-> k,
                              ret |-> take_values(results[c]), after |-> ncalls])
  /\ UNCHANGED <<raw_args, residual_args, inner_ctx, commands, results,
                 cmd_results, args, handles, cmd_handles, nregs, ncalls, last,
                 trace, cur, regs>>

(* A call of check() and a call of count() on the k-th handle: they read  *)
(* the cell through a shared borrow and return.                             *)
Check(k) ==
  /\ Len(rets) < MaxTakes
  /\ k \in DOMAIN handles
  /\ rets' = Append(rets, [op |-> "check", h |-> k, ret |-> check(handles[k].opt),
                           after |-> ncalls])
  /\ UNCHANGED <<raw_args, residual_args, inner_ctx, commands, results,
                 cmd_results, args, handles, cmd_handles, nregs, ncalls, last,
                 trace, cur, regs>>

Count(k) ==
  /\ Len(rets) < MaxTakes
  /\ k \in DOMAIN handles
  /\ rets' = Append(rets, [op |-> "count", h |-> k, ret |-> count(handles[k].opt),
                           after |-> ncalls])
  /\ UNCHANGED <<raw_args, residual_args, inner_ctx, commands, results,
                 cmd_results, args, handles, cmd_handles, nregs, ncalls, last,
                 trace, cur, regs>>

-----------------------------------------------------------------------------
(* Context::new(description, argv), argv drawn from ArgLists.             *)
InitWith(ArgLists) ==
  /\ args \in ArgLists
  /\ raw_args = prep_args(args)
  /\ residual_args = << >>
  /\ inner_ctx = LocalContext_new
  /\ commands = EmptyMap
  /\ results = << >>
  /\ cmd_results = << >>
  /\ handles = << >>
  /\ cmd_handles = << >>
  /\ nregs = 0
  /\ ncalls = 0
  /\ last = None
  /\ trace = << >>
  /\ rets = << >>
  /\ cur = None
  /\ regs = << >>

(* Argument vectors: the program name, then at most MaxArgs arguments. *)
Prog == <<"p">>

ArgVectors(Pool) ==
  {<<Prog>> \o a : a \in UNION {[1..n -> Pool] : n \in 0..MaxArgs}}

(* The program as its callers drive it (lib.rs, lines 15-66, and every   *)
(* test): the options and the commands are registered first, then         *)
(* validate() is called; a caller that gets an error prints the help and  *)
(* stops, and does not call validate() again.  OptInputs is a set of      *)
(* add_option inputs <<scope, long_name, short_name, flags>>, Names a set *)
(* of command names.                                                       *)
RegisterOption(OptInputs) ==
  /\ ncalls = 0
  /\ \E in \in OptInputs : AddOption(in[1], in[2], in[3], in[4])

RegisterCommand(Names) ==
  /\ ncalls = 0
  /\ \E n \in Names : AddCommand(n)

CallValidate ==
  /\ IF IsSome(last) THEN last[1].ok ELSE TRUE
  /\ Validate

(* Names used by the specifications. *)
Top == None

InC == Some(<<"c">>)

La == Some(<<"a", "a">>)

Sa == Some("a")

Sb == Some("b")

(* Spec: two top-level options that share a long name, a third one that   *)
(* may take a value, a command and two options of its own.                 *)
ArgPool ==
  { <<"-", "a">>, <<"-", "-", "a", "a">>, <<"-", "b">>, <<"v">>, <<"c">> }

OptInputs ==
  { <<Top, La, Sa, Defaults>>, <<Top, La, None, TakesArg>>,
    <<Top, None, Sb, TakesOptionalArg>>,
    <<InC, None, Sb, Defaults>>, <<InC, None, Sa, TakesArg>> }

CmdNames == { <<"c">> }

Init == InitWith(ArgVectors(ArgPool))

Next == RegisterOption(OptInputs) \/ RegisterCommand(CmdNames) \/ CallValidate

Spec == Init /\ [][Next]_vars

(* SpecFlags: one option with both names under every flag word, and a     *)
(* second option; no command.                                              *)
FlagArgPool ==
  { <<"-", "a">>, <<"-", "-", "a", "a">>, <<"-", "b">>, <<"v">> }

FlagInputs ==
  { <<Top, La, Sa, f>> : f \in {Defaults, Unique, TakesArg, TakesOptionalArg,
                               Unique + TakesArg, TakesArg + TakesOptionalArg} }
  \cup { <<Top, None, Sb, Defaults>> }

InitFlags == InitWith(ArgVectors(FlagArgPool))

NextFlags == RegisterOption(FlagInputs) \/ CallValidate

SpecFlags == InitFlags /\ [][NextFlags]_vars

(* SpecEq: arguments of the form --aa=value, with a value that is plain, *)
(* that starts with '-' and that is '=', next to the separate arguments;  *)
(* the long name aa given to an option with a mandatory value.            *)
EqArgPool ==
  { <<"-", "-", "a", "a", "=", "v">>, <<"-", "-", "a", "a", "=", "-", "a">>,
    <<"-", "-", "a", "a", "=", "=">>, <<"-", "-", "a", "a">>,
    <<"v">>, <<"-", "a">> }

EqInputs ==
  { <<Top, La, Sa, TakesArg>>, <<Top, La, None, Unique + TakesArg>>,
    <<Top, None, Sa, Defaults>> }

InitEq == InitWith(ArgVectors(EqArgPool))

NextEq == RegisterOption(EqInputs) \/ CallValidate

SpecEq == InitEq /\ [][NextEq]_vars

(* SpecGrp: groups of short options, in both orders and of three, and a   *)
(* bare value; each short name with or without a value.                    *)
Sc == Some("c")

GrpArgPool ==
  { <<"-", "a", "b">>, <<"-", "b", "a">>, <<"-", "a", "b", "c">>, <<"v">> }

GrpInputs ==
  { <<Top, None, Sa, f>> : f \in {Defaults, TakesArg} }
  \cup { <<Top, None, Sb, f>> : f \in {Defaults, TakesArg, TakesOptionalArg} }
  \cup { <<Top, None, Sc, Defaults>> }

InitGrp == InitWith(ArgVectors(GrpArgPool))

NextGrp == RegisterOption(GrpInputs) \/ CallValidate

SpecGrp == InitGrp /\ [][NextGrp]_vars

(* SpecCmd: two commands c and d; the short name a at top level and in c, *)
(* the short name b at top level (with an optional value) and in d.  A    *)
(* command name whose command was not added is an ordinary bare value.    *)
InD == Some(<<"d">>)

CmdArgPool == { <<"c">>, <<"d">>, <<"-", "a">>, <<"-", "b">> }

CmdOptInputs ==
  { <<Top, None, Sa, Defaults>>, <<Top, None, Sb, TakesOptionalArg>>,
    <<InC, None, Sa, Defaults>>, <<InD, None, Sb, Defaults>> }

TwoCmdNames == { <<"c">>, <<"d">> }

InitCmd == InitWith(ArgVectors(CmdArgPool))

NextCmd ==
  RegisterOption(CmdOptInputs) \/ RegisterCommand(TwoCmdNames) \/ CallValidate

SpecCmd == InitCmd /\ [][NextCmd]_vars

(* SpecAcc: one option under the names aa and a, without a value, with an *)
(* optional or with a mandatory value; values that parse as an int and    *)
(* one that does not, given as separate arguments and as --aa=value; the  *)
(* caller reads the handles it holds once it has registered its options,  *)
(* before or after validate().                                             *)
AccArgPool ==
  { <<"-", "a">>, <<"-", "-", "a", "a">>, <<"-", "-", "a", "a", "=", "x">>,
    <<"1", "2">> }

AccInputs ==
  { <<Top, La, Sa, f>> : f \in {Defaults, TakesOptionalArg, TakesArg} }

InitAcc == InitWith(ArgVectors(AccArgPool))

RegisterOptionAcc == rets = << >> /\ RegisterOption(AccInputs)

CallTakeValue == \E k \in DOMAIN handles : TakeValue(k)

CallTakeValues == \E k \in DOMAIN handles : TakeValues(k)

NextAcc == RegisterOptionAcc \/ CallValidate \/ CallTakeValue \/ CallTakeValues

SpecAcc == InitAcc /\ [][NextAcc]_vars

(* SpecReg: registrations whose names collide, in either order, on the    *)
(* long name, on the short name or on both, at top level and inside a     *)
(* command; the names are then passed on the command line.                 *)
Lb == Some(<<"b", "b">>)

RegArgPool == { <<"-", "a">>, <<"-", "-", "a", "a">>, <<"-", "-", "b", "b">> }

RegInputs ==
  { <<Top, La, Sa, Defaults>>, <<Top, La, None, Defaults>>,
    <<Top, None, Sa, Defaults>>, <<Top, Lb, Sa, Defaults>>,
    <<Top, La, Sb, Defaults>>,
    <<InC, La, Sa, Defaults>>, <<InC, None, Sa, Defaults>> }

InitReg == InitWith(ArgVectors(RegArgPool))

NextReg == RegisterOption(RegInputs) \/ RegisterCommand(CmdNames) \/ CallValidate

SpecReg == InitReg /\ [][NextReg]_vars

(* SpecScope: the same short name registered at top level and in two      *)
(* commands, through add_command and its &mut Cmd or through              *)
(* add_cmd_with, each registration possibly made twice.                    *)
ScopeArgPool == { <<"c">>, <<"d">>, <<"-", "a">> }

ScopeInputs ==
  { <<Top, None, Sa, Defaults>>, <<InC, None, Sa, Defaults>>,
    <<InD, None, Sa, Defaults>> }

(* what the closure given to add_cmd_with adds: <<long_name, short_name, flags>> *)
CmdWithInputs == { <<None, Sa, Defaults>> }

RegisterCmdWith(Names, Ops) ==
  /\ ncalls = 0
  /\ \E n \in Names : \E in \in Ops : AddCmdWith(n, in[1], in[2], in[3])

InitScope == InitWith(ArgVectors(ScopeArgPool))

NextScope ==
  \/ RegisterOption(ScopeInputs)
  \/ RegisterCommand(TwoCmdNames)
  \/ RegisterCmdWith(TwoCmdNames, CmdWithInputs)
  \/ CallValidate

SpecScope == InitScope /\ [][NextScope]_vars

(* SpecLife: a top-level option with an optional value, a command and an  *)
(* option of its own; validate() may be called again after it succeeded,   *)
(* and the caller reads the handles it holds between the calls.            *)
LifeArgPool == { <<"c">>, <<"-", "a">>, <<"v">> }

LifeInputs ==
  { <<Top, None, Sa, TakesOptionalArg>>, <<InC, None, Sa, Defaults>> }

InitLife == InitWith(ArgVectors(LifeArgPool))

RegisterOptionLife == rets = << >> /\ RegisterOption(LifeInputs)

RegisterCommandLife == rets = << >> /\ RegisterCommand(CmdNames)

NextLife ==
  \/ RegisterOptionLife
  \/ RegisterCommandLife
  \/ CallValidate
  \/ CallTakeValue
  \/ CallTakeValues

SpecLife == InitLife /\ [][NextLife]_vars

(* SpecRead: an option under the names aa and a with an optional value;   *)
(* the caller reads its handle with each of the four accessors, before or  *)
(* after validate().                                                         *)
ReadArgPool ==
  { <<"-", "a">>, <<"-", "-", "a", "a", "=", "x">>, <<"1", "2">> }

ReadInputs == { <<Top, La, Sa, TakesOptionalArg>> }

InitRead == InitWith(ArgVectors(ReadArgPool))

RegisterOptionRead == rets = << >> /\ RegisterOption(ReadInputs)

CallCheck == \E k \in DOMAIN handles : Check(k)

CallCount == \E k \in DOMAIN handles : Count(k)

NextRead ==
  \/ RegisterOptionRead
  \/ CallValidate
  \/ CallTakeValue
  \/ CallTakeValues
  \/ CallCheck
  \/ CallCount

SpecRead == InitRead /\ [][NextRead]_vars

(* SpecErr: two different bare values that can be left over before an     *)
(* option or a command is read, at top level or inside the command.        *)
ErrArgPool == { <<"v">>, <<"w">>, <<"-", "a">>, <<"c">> }

ErrInputs == { <<Top, None, Sa, Defaults>>, <<InC, None, Sa, Defaults>> }

InitErr == InitWith(ArgVectors(ErrArgPool))

NextErr == RegisterOption(ErrInputs) \/ RegisterCommand(CmdNames) \/ CallValidate

SpecErr == InitErr /\ [][NextErr]_vars

(* SpecDef: option definitions without any name, under several flag      *)
(* words, at top level and inside a command; long names of no and of one  *)
(* character; the names are then passed on the command line.               *)
L0 == Some(<< >>)

L1 == Some(<<"a">>)

DefArgPool == { <<"-", "-">>, <<"-", "-", "a">>, <<"-", "a">> }

DefInputs ==
  { <<Top, None, None, f>> : f \in {Defaults, TakesArg, Unique + Hidden} }
  \cup { <<InC, None, None, Defaults>>,
         <<Top, L0, None, Defaults>>, <<Top, L1, None, Defaults>>,
         <<Top, None, Sa, Defaults>> }

InitDef == InitWith(ArgVectors(DefArgPool))

NextDef == RegisterOption(DefInputs) \/ RegisterCommand(CmdNames) \/ CallValidate

SpecDef == InitDef /\ [][NextDef]_vars

(* SpecTok: argument vectors for the tokenizer: long arguments with no,   *)
(* one and two '=', with nothing before or after it, "--" and "-" alone, a *)
(* group of short flags, bare values with and without '='; also the empty  *)
(* vector, which has no program name.                                       *)
TokArgPool ==
  { <<"-", "-", "a", "=", "b", "=", "c">>, <<"-", "-", "a">>,
    <<"-", "-", "=">>, <<"-", "-">>, <<"-", "a", "b">>, <<"-">>,
    <<"v">>, <<"a", "=", "b">> }

TokInputs ==
  { <<Top, L1, Sa, TakesOptionalArg>>, <<Top, None, Sb, Defaults>> }

InitTok == InitWith(ArgVectors(TokArgPool) \cup { << >> })

NextTok == RegisterOption(TokInputs) \/ CallValidate

SpecTok == InitTok /\ [][NextTok]_vars

-----------------------------------------------------------------------------
(* Vocabulary of the properties.                                           *)

Failed == IsSome(last) /\ ~last[1].ok

Succeeded == IsSome(last) /\ last[1].ok

(* The event is a flag token that its scope does not know. *)
UnknownFlag(e) == option(e.tok) /\ ~e.found

(* The event is a flag token matched to an option with this flag bit. *)
Matched(e, flag) == IsSome(e.opt) /\ has_flag(e.opt[1], flag)

(* The event is a bare value that went to the leftover list. *)
Leftover(e) == ~option(e.tok) /\ ~e.found

(* The token after the event's is a bare value. *)
NextIsValue(e) == Len(e.rest) > 0 /\ ~option(Head(e.rest))

(* The event's arm took the next token as the option's value. *)
TookValue(e) ==
  /\ NextIsValue(e)
  /\ e.rest1 = Tail(e.rest)
  /\ e.cell1.values = Append(e.cell0.values, value(Head(e.rest)))

(* No leftover is pending and the option is not a repeated Unique one:    *)
(* Opt::validate reaches its value stage.                                  *)
ReachesValueStage(e) ==
  /\ e.pending = << >>
  /\ ~(has_flag(e.opt[1], Unique) /\ e.cell0.passed > 0)

(* The leftover that validate() names when the event's arm fails with     *)
(* leftovers pending: each of Opt::validate or Cmd::validate, the parse   *)
(* of a command and the top-level parse shifts one leftover in turn, and  *)
(* the last one shifted is named.                                          *)
NamedLeftover(e) ==
  LET k == 1 + (IF e.found THEN 1 ELSE 0) + (IF IsSome(e.scope) THEN 1 ELSE 0)
  IN e.pending[IF k < Len(e.pending) THEN k ELSE Len(e.pending)]

-----------------------------------------------------------------------------
(* C1, as stated: whenever validate() pops a flag token that the active   *)
(* scope does not know, it fails with the unknown-option error naming     *)
(* that flag.                                                              *)
C1_UnknownOptionError ==
  \A i \in DOMAIN trace :
    UnknownFlag(trace[i]) =>
      Failed /\ last[1] = Err(FmtInvalidOption, value(trace[i].tok))

(* C1, amended: whenever validate() pops a flag token that the active     *)
(* scope does not know, it fails; the error is the unknown-option error   *)
(* naming that flag when no leftover is pending, and the                  *)
(* unexpected-argument error naming a pending leftover otherwise.         *)
C1_UnknownOptionFails ==
  \A i \in DOMAIN trace :
    UnknownFlag(trace[i]) =>
      /\ Failed
      /\ last[1] = IF trace[i].pending = << >>
                   THEN Err(FmtInvalidOption, value(trace[i].tok))
                   ELSE Err(FmtUnexpectedArgument, NamedLeftover(trace[i]))

(* C1 happens: an unknown flag popped in a command's scope with no        *)
(* leftover pending, and validate() returns the unknown-option error.      *)
C1_Witness ==
  /\ Failed
  /\ last[1].fmt = FmtInvalidOption
  /\ \E i \in DOMAIN trace : UnknownFlag(trace[i]) /\ IsSome(trace[i].scope)

(* C2, as stated: a matched TakesArg option takes the next token when it  *)
(* is a bare value, and validate() fails with the missing-argument error  *)
(* naming the option otherwise.                                            *)
C2_MandatoryValue ==
  \A i \in DOMAIN trace :
    Matched(trace[i], TakesArg) =>
      IF NextIsValue(trace[i])
      THEN TookValue(trace[i])
      ELSE Failed /\ last[1] = Err(FmtMissingArgument, value(trace[i].tok))

(* C2, amended: the same, for a TakesArg option matched with no leftover  *)
(* pending and that is not a Unique option matched again.                 *)
C2_MandatoryValueAtValueStage ==
  \A i \in DOMAIN trace :
    Matched(trace[i], TakesArg) /\ ReachesValueStage(trace[i]) =>
      IF NextIsValue(trace[i])
      THEN TookValue(trace[i])
      ELSE Failed /\ last[1] = Err(FmtMissingArgument, value(trace[i].tok))

(* C2 happens: a TakesArg option took a value through its long name, and  *)
(* validate() went on.                                                     *)
C2_Witness ==
  /\ Succeeded
  /\ \E i \in DOMAIN trace :
       /\ Matched(trace[i], TakesArg)
       /\ trace[i].tok.k = "Long"
       /\ TookValue(trace[i])
       /\ i < Len(trace)

(* What C3 says of a matched option whose next token is no bare value:    *)
(* no failure, the count incremented, no value appended, the next token   *)
(* left in the stream and popped next by the same scope.                  *)
PassedWithoutValue(i) ==
  LET e == trace[i]
  IN /\ e.arm.ok
     /\ e.cell1.passed = e.cell0.passed + 1
     /\ e.cell1.values = e.cell0.values
     /\ e.rest1 = e.rest
     /\ Len(e.rest) > 0 =>
          /\ i < Len(trace)
          /\ trace[i + 1].tok = Head(e.rest)
          /\ trace[i + 1].scope = e.scope

(* C3, as stated, for every matched option that takes an optional value   *)
(* (TakesOptionalArg without TakesArg, which has_flag tests first).        *)
C3_OptionalValue ==
  \A i \in DOMAIN trace :
    Matched(trace[i], TakesOptionalArg) /\ ~has_flag(trace[i].opt[1], TakesArg) =>
      IF NextIsValue(trace[i]) THEN TookValue(trace[i]) ELSE PassedWithoutValue(i)

(* C3, amended: the same, for an optional-value option matched with no    *)
(* leftover pending and that is not a Unique option matched again.        *)
C3_OptionalValueAtValueStage ==
  \A i \in DOMAIN trace :
    /\ Matched(trace[i], TakesOptionalArg)
    /\ ~has_flag(trace[i].opt[1], TakesArg)
    /\ ReachesValueStage(trace[i])
    => IF NextIsValue(trace[i]) THEN TookValue(trace[i]) ELSE PassedWithoutValue(i)

(* C3 happens: an optional-value option followed by a flag, which is      *)
(* processed next, and validate() succeeds.                                *)
C3_Witness ==
  /\ Succeeded
  /\ \E i \in DOMAIN trace :
       /\ Matched(trace[i], TakesOptionalArg)
       /\ ~has_flag(trace[i].opt[1], TakesArg)
       /\ Len(trace[i].rest) > 0
       /\ ~NextIsValue(trace[i])
       /\ PassedWithoutValue(i)

(* C4, as stated: the second token matched to a Unique option makes       *)
(* validate() fail with the duplicate-option error, and count() is 2      *)
(* afterwards.                                                             *)
C4_UniqueTwice ==
  \A i \in DOMAIN trace :
    Matched(trace[i], Unique) /\ trace[i].cell0.passed = 1 =>
      /\ Failed
      /\ last[1] = Err(FmtDuplicateOption, value(trace[i].tok))
      /\ count(trace[i].opt[1]) = 2

(* C4, amended: the second token matched to a Unique option makes         *)
(* validate() fail, with the duplicate-option error when no leftover is   *)
(* pending and with the unexpected-argument error naming a pending        *)
(* leftover otherwise; count() is 2 afterwards in both cases.             *)
C4_UniqueTwiceFails ==
  \A i \in DOMAIN trace :
    Matched(trace[i], Unique) /\ trace[i].cell0.passed = 1 =>
      /\ Failed
      /\ last[1] = IF trace[i].pending = << >>
                   THEN Err(FmtDuplicateOption, value(trace[i].tok))
                   ELSE Err(FmtUnexpectedArgument, NamedLeftover(trace[i]))
      /\ count(trace[i].opt[1]) = 2

(* C4 happens: a Unique option passed by its short name, then by its long *)
(* name, and the duplicate-option error.                                   *)
C4_Witness ==
  /\ Failed
  /\ last[1].fmt = FmtDuplicateOption
  /\ \E i, j \in DOMAIN trace :
       /\ i < j
       /\ Matched(trace[j], Unique)
       /\ trace[i].opt = trace[j].opt
       /\ trace[i].tok.k = "Short"
       /\ trace[j].tok.k = "Long"
       /\ count(trace[j].opt[1]) = 2

(* C5: a token matched to an option or to a command while a leftover is   *)
(* pending makes validate() fail with the unexpected-argument error; and  *)
(* when validate() returns Ok, no matched token comes after a leftover.   *)
C5_LeftoversAreTrailing ==
  /\ \A i \in DOMAIN trace :
       trace[i].found /\ trace[i].pending # << >> =>
         Failed /\ last[1].fmt = FmtUnexpectedArgument
  /\ Succeeded =>
       \A i, j \in DOMAIN trace :
         i < j /\ Leftover(trace[i]) => ~trace[j].found

(* C5 happens: validate() has failed on a registered command name read    *)
(* after a leftover.                                                        *)
C5_Witness ==
  /\ Failed
  /\ \E i \in DOMAIN trace :
       /\ trace[i].pending # << >>
       /\ trace[i].found
       /\ ~option(trace[i].tok)

(* The tokens the events account for: each popped token, followed by the  *)
(* value its option took, if any.                                          *)
RECURSIVE Accounted(_, _)
Accounted(log, i) ==
  IF i > Len(log) THEN << >>
  ELSE <<log[i].tok>>
       \o (IF IsSome(log[i].opt) /\ TookValue(log[i])
           THEN <<Head(log[i].rest)>> ELSE << >>)
       \o Accounted(log, i + 1)

(* The bare values that were neither taken by an option nor matched as a  *)
(* command name, in the order popped.                                      *)
RECURSIVE Leftovers(_, _)
Leftovers(log, i) ==
  IF i > Len(log) THEN << >>
  ELSE (IF Leftover(log[i]) THEN <<value(log[i].tok)>> ELSE << >>)
       \o Leftovers(log, i + 1)

(* C6: when validate() returns Ok, every token of the input is accounted  *)
(* for, in input order, as a popped token or as the value an option took, *)
(* and get_args() is the sequence of the bare values that were neither    *)
(* taken by an option nor matched as a command name.                      *)
C6_GetArgs ==
  Succeeded =>
    /\ Accounted(trace, 1) = prep_args(args)
    /\ get_args = Leftovers(trace, 1)

(* C6 happens: two leftovers read inside a command's scope. *)
C6_Witness ==
  /\ Succeeded
  /\ Len(get_args) = 2
  /\ \E i \in DOMAIN trace : Leftover(trace[i]) /\ IsSome(trace[i].scope)

(* The flag tokens of the call that name the option of a handle, by its   *)
(* short name or by its long name, in the scope where it is registered.   *)
TokensNaming(h) ==
  {i \in DOMAIN trace :
     /\ trace[i].scope = h.scope
     /\ \/ trace[i].tok.k = "Short" /\ trace[i].tok.v = h.opt.short_name
        \/ trace[i].tok.k = "Long" /\ <<trace[i].tok.v>> = h.opt.long_name}

(* C7: after a successful validate(), count() of a registered option      *)
(* without Unique is the number of flag tokens that named it in its       *)
(* scope, check() is true iff that count is not zero, and a registered    *)
(* option that no token named has count 0 and check() false.              *)
C7_CountIsOccurrences ==
  Succeeded =>
    \A k \in DOMAIN handles :
      LET h == handles[k]
      IN /\ ~has_flag(h.opt, Unique) =>
              count(h.opt) = Cardinality(TokensNaming(h))
         /\ check(h.opt) <=> count(h.opt) # 0
         /\ TokensNaming(h) = {} => count(h.opt) = 0 /\ ~check(h.opt)

-----------------------------------------------------------------------------
(* What validate() does with the argument vector argv on the registry of  *)
(* the current state, every Res and every command cell being as           *)
(* registration left it.                                                   *)
FreshRun(argv) ==
  parse(inner_ctx, commands, None,
        [rargs |-> prep_args(argv), residual |-> << >>,
         results |-> [i \in DOMAIN results |-> Res_new],
         cmd_results |-> [i \in DOMAIN cmd_results |-> FALSE],
         log |-> << >>])

(* The argument is --long=value, for some value. *)
IsEqForm(arg, long) == starts_with(arg, <<"-", "-">> \o long \o <<"=">>)

EqValue(arg, long) == SubSeq(arg, Len(long) + 4, Len(arg))

(* The argument vector in which each argument --long=value is replaced by *)
(* the two arguments --long and value.                                     *)
RECURSIVE Separated(_, _, _)
Separated(argv, long, i) ==
  IF i > Len(argv) THEN << >>
  ELSE (IF IsEqForm(argv[i], long)
        THEN << <<"-", "-">> \o long, EqValue(argv[i], long) >>
        ELSE <<argv[i]>>)
       \o Separated(argv, long, i + 1)

(* C8, as stated: for an option registered under a long name with a       *)
(* mandatory value, the values captured from the arguments are the values *)
(* captured when each --long=value is passed as --long value instead,     *)
(* for every value.                                                        *)
C8_EqualsFormSameValues ==
  IsSome(last) =>
    \A l \in DOMAIN inner_ctx.loptions :
      LET opt == inner_ctx.loptions[l]
      IN has_flag(opt, TakesArg) =>
           results[opt.result].values =
             FreshRun(Separated(args, l, 1)).st.results[opt.result].values

(* C8, amended: the same, when no value given as --long=value starts with *)
(* '-'.                                                                    *)
C8_EqualsFormSameValuesNoDash ==
  IsSome(last) =>
    \A l \in DOMAIN inner_ctx.loptions :
      LET opt == inner_ctx.loptions[l]
      IN /\ has_flag(opt, TakesArg)
         /\ \A i \in DOMAIN args :
              IsEqForm(args[i], l) => ~starts_with(EqValue(args[i], l), <<"-">>)
         => results[opt.result].values =
              FreshRun(Separated(args, l, 1)).st.results[opt.result].values

(* C8 happens: validate() has succeeded on arguments that give a          *)
(* mandatory-value option the value '=' as --long== and the value v as a  *)
(* separate argument, and the option holds both.                           *)
C8_Witness ==
  /\ Succeeded
  /\ \E l \in DOMAIN inner_ctx.loptions :
       LET opt == inner_ctx.loptions[l]
       IN /\ has_flag(opt, TakesArg)
          /\ \E i \in DOMAIN args :
               IsEqForm(args[i], l) /\ EqValue(args[i], l) = <<"=">>
          /\ Len(results[opt.result].values) = 2
          /\ <<"=">> \in {results[opt.result].values[j] : j \in 1..2}
          /\ <<"v">> \in {results[opt.result].values[j] : j \in 1..2}
          /\ Separated(args, l, 1) # args

-----------------------------------------------------------------------------
(* The characters of a short group -x1...xn, and the separate arguments   *)
(* -x1 ... -xn.                                                            *)
IsGroup(arg) ==
  /\ Len(arg) >= 3
  /\ arg[1] = "-"
  /\ arg[2] # "-"

GroupChars(arg) == SubSeq(arg, 2, Len(arg))

Distinct(xs) == \A i, j \in DOMAIN xs : i # j => xs[i] # xs[j]

SeparateFlags(arg) == [i \in 1..(Len(arg) - 1) |-> <<"-", arg[i + 1]>>]

(* The option registered at top level under the short name x. *)
ShortOpt(x) == inner_ctx.soptions[x]

TakesNoValue(opt) == ~has_flag(opt, TakesArg + TakesOptionalArg)

(* The only argument is a group whose characters are distinct short names *)
(* registered at top level.                                                *)
GroupAlone ==
  /\ Len(args) = 2
  /\ IsGroup(args[2])
  /\ Distinct(GroupChars(args[2]))
  /\ \A i \in 1..(Len(args[2]) - 1) : args[2][i + 1] \in DOMAIN inner_ctx.soptions

(* C9: a single group of distinct registered short options that take no   *)
(* value makes validate() succeed with count 1 for each, no leftover and  *)
(* count 0 for every other option: what the separate arguments give.      *)
C9_GroupOfFlags ==
  /\ IsSome(last)
  /\ GroupAlone
  /\ \A i \in 1..(Len(args[2]) - 1) : TakesNoValue(ShortOpt(args[2][i + 1]))
  => LET xs == GroupChars(args[2])
         cells == {ShortOpt(xs[i]).result : i \in DOMAIN xs}
         sep == FreshRun(<<Prog>> \o SeparateFlags(args[2]))
     IN /\ Succeeded
        /\ \A i \in DOMAIN xs : count(ShortOpt(xs[i])) = 1
        /\ get_args = << >>
        /\ \A c \in DOMAIN results : c \notin cells => results[c].passed = 0
        /\ sep.res = last[1]
        /\ sep.st.results = results
        /\ sep.st.residual = residual_args

(* C9 happens: the group -abc has been validated with a, b and c          *)
(* registered without a value.                                             *)
C9_Witness ==
  /\ Succeeded
  /\ GroupAlone
  /\ Len(args[2]) = 4
  /\ \A i \in 1..3 : TakesNoValue(ShortOpt(args[2][i + 1]))
  /\ \A i \in 1..3 : count(ShortOpt(args[2][i + 1])) = 1

(* The arguments are a group of distinct registered short names followed  *)
(* by one bare argument.                                                   *)
GroupThenValue ==
  /\ Len(args) = 3
  /\ IsGroup(args[2])
  /\ Distinct(GroupChars(args[2]))
  /\ \A i \in 1..(Len(args[2]) - 1) : args[2][i + 1] \in DOMAIN inner_ctx.soptions
  /\ ~starts_with(args[3], <<"-">>)

(* C10: for a group followed by a bare argument v, no option but the last *)
(* captures v; when an option before the last takes a mandatory value,    *)
(* validate() fails with the missing-argument error naming the first such *)
(* option; otherwise, when the last option takes a value, validate()      *)
(* succeeds, the last option holds v and every option of the group has    *)
(* count 1, the others with no value.                                      *)
C10_GroupThenValue ==
  IsSome(last) /\ GroupThenValue =>
    LET xs == GroupChars(args[2])
        n == Len(xs)
        v == args[3]
        early == {i \in 1..(n - 1) : has_flag(ShortOpt(xs[i]), TakesArg)}
    IN /\ \A i \in 1..(n - 1) : results[ShortOpt(xs[i]).result].values = << >>
       /\ early # {} =>
            LET i == CHOOSE j \in early : \A m \in early : j <= m
            IN last[1] = Err(FmtMissingArgument, <<xs[i]>>)
       /\ early = {} /\ ~TakesNoValue(ShortOpt(xs[n])) =>
            /\ Succeeded
            /\ results[ShortOpt(xs[n]).result].values = <<v>>
            /\ \A i \in 1..n : count(ShortOpt(xs[i])) = 1
            /\ get_args = << >>

(* C10 happens: the last option of the group took v after an option with  *)
(* an optional value was counted without one.                              *)
C10_Witness ==
  /\ Succeeded
  /\ GroupThenValue
  /\ LET xs == GroupChars(args[2])
     IN /\ has_flag(ShortOpt(xs[1]), TakesOptionalArg)
        /\ has_flag(ShortOpt(xs[Len(xs)]), TakesArg)
        /\ results[ShortOpt(xs[1]).result] = [passed |-> 1, values |-> << >>]
        /\ results[ShortOpt(xs[Len(xs)]).result].values = <<args[3]>>

-----------------------------------------------------------------------------
(* The event is a bare value that the top-level scope resolved to a       *)
(* command: the command the registry holds under that name.               *)
CommandMatch(e) == ~option(e.tok) /\ e.found

MatchedCmd(e) == commands[e.tok.v]

(* The Res cells of the options registered in a command. *)
CellsOf(cmd) ==
  {cmd.inner_ctx.soptions[x].result : x \in DOMAIN cmd.inner_ctx.soptions}
  \cup {cmd.inner_ctx.loptions[x].result : x \in DOMAIN cmd.inner_ctx.loptions}

(* The leftover list right after event i: what the next event saw pending, *)
(* or the list validate() left when i is the last event.                   *)
ResidualAfter(i) ==
  IF i < Len(trace) THEN trace[i + 1].pending ELSE residual_args

C12_CommandOnce ==
  \A i, j \in DOMAIN trace :
    /\ i < j
    /\ CommandMatch(trace[i])
    /\ trace[i].pending = << >>
    /\ trace[j].tok = trace[i].tok
    => /\ CmdRes_check(MatchedCmd(trace[i]).result)
       /\ Failed
       /\ last[1] = Err(FmtUnexpectedCommand, trace[i].tok.v)

(* The registry a flag token popped as event i must be looked up in: the  *)
(* top-level one before any command was selected, the selected command's  *)
(* afterwards.                                                             *)
SelectedBefore(i) == {j \in 1..(i - 1) : CommandMatch(trace[j])}

RegistryAt(i) ==
  IF SelectedBefore(i) = {} THEN inner_ctx
  ELSE LET j == CHOOSE k \in SelectedBefore(i) : TRUE
       IN MatchedCmd(trace[j]).inner_ctx

Registered(ctx, tok) ==
  IF tok.k = "Short" THEN find(ctx.soptions, tok.v[1]) ELSE find(ctx.loptions, tok.v)

(* The events that the lookup resolved to the option of the Res cell c. *)
ResolvedTo(c) ==
  {i \in DOMAIN trace : IsSome(trace[i].opt) /\ trace[i].opt[1].result = c}

(* C13: a flag token is resolved in the top-level registry before the     *)
(* command name and only in the selected command's registry after it; a   *)
(* flag that this registry does not hold makes validate() fail, wherever  *)
(* else it is registered; and every Res holds exactly the occurrences     *)
(* that were resolved to its own option, so the options of the other      *)
(* scopes and of unselected commands are left alone.                      *)
C13_ScopedLookup ==
  /\ \A i \in DOMAIN trace :
       option(trace[i].tok) =>
         /\ Cardinality(SelectedBefore(i)) <= 1
         /\ trace[i].opt = Registered(RegistryAt(i), trace[i].tok)
         /\ ~IsSome(Registered(RegistryAt(i), trace[i].tok)) => Failed
  /\ \A c \in DOMAIN results : results[c].passed = Cardinality(ResolvedTo(c))

(* C13 happens: -a c -a with a registered at top level and in c has       *)
(* counted each option once.                                               *)
C13_Witness ==
  /\ Succeeded
  /\ Len(trace) = 3
  /\ <<"c">> \in DOMAIN commands
  /\ "a" \in DOMAIN inner_ctx.soptions
  /\ "a" \in DOMAIN commands[<<"c">>].inner_ctx.soptions
  /\ trace[1].opt = Some(inner_ctx.soptions["a"])
  /\ trace[3].opt = Some(commands[<<"c">>].inner_ctx.soptions["a"])
  /\ count(inner_ctx.soptions["a"]) = 1
  /\ count(commands[<<"c">>].inner_ctx.soptions["a"]) = 1

(* The values that the events resolved to the Res cell c took, in order. *)
RECURSIVE ValuesTaken(_, _)
ValuesTaken(c, i) ==
  IF i > Len(trace) THEN << >>
  ELSE (IF i \in ResolvedTo(c) /\ TookValue(trace[i])
        THEN <<value(Head(trace[i].rest))>> ELSE << >>)
       \o ValuesTaken(c, i + 1)

(* The command cells that a command match set. *)
SelectedCells ==
  {MatchedCmd(trace[i]).result :
     i \in {j \in DOMAIN trace : CommandMatch(trace[j]) /\ trace[j].pending = << >>}}

(* C14: when validate() fails, the token that failed is the last one it   *)
(* processed and the error returned is the error of that token; the       *)
(* tokens after it are still in the stream, unprocessed; and the counts,  *)
(* the values and the command selections are exactly those of the tokens  *)
(* processed, the failing one included: nothing is rolled back.           *)
C14_StopsAtFirstError ==
  Failed =>
    LET n == Len(trace)
    IN /\ n > 0
       /\ ~trace[n].arm.ok
       /\ \A i \in 1..(n - 1) : ~CommandMatch(trace[i]) => trace[i].arm.ok
       /\ last[1] = IF trace[n].pending = << >> THEN trace[n].arm
                    ELSE Err(FmtUnexpectedArgument, NamedLeftover(trace[n]))
       /\ Accounted(trace, 1) \o raw_args = prep_args(args)
       /\ \A c \in DOMAIN results :
            /\ results[c].passed = Cardinality(ResolvedTo(c))
            /\ results[c].values = ValuesTaken(c, 1)
       /\ \A k \in DOMAIN cmd_results : cmd_results[k] <=> k \in SelectedCells

(* C14 happens: validate() failed on the second token after it counted    *)
(* the first, and a registered command's name is left in the stream, the  *)
(* command not selected.                                                   *)
C14_Witness ==
  /\ Failed
  /\ Len(trace) = 2
  /\ IsSome(trace[1].opt)
  /\ count(trace[1].opt[1]) = 1
  /\ raw_args = <<Neither(<<"c">>)>>
  /\ <<"c">> \in DOMAIN commands
  /\ ~CmdRes_check(commands[<<"c">>].result)

-----------------------------------------------------------------------------
(* The step is a call of the accessor op; the handle it was called on,    *)
(* the Res cell behind that handle before the call, and what it returned. *)
AccessorStep(op) ==
  /\ Len(rets') = Len(rets) + 1
  /\ rets'[Len(rets')].op = op

StepCell == results[handles[rets'[Len(rets')].h].opt.result]

StepRet == rets'[Len(rets')].ret

(* C15: take_value::<int>() returns Left exactly when the option holds a  *)
(* captured value, with Some(x) when the value handed out parses to x and *)
(* None when it does not parse; with no captured value it returns         *)
(* Right(true) when the count is not zero and Right(false) when the count *)
(* is zero, which is the case of every call made before validate().       *)
C15_TakeValueOutcomes ==
  [][AccessorStep("take_value") =>
       LET res == StepCell
           ret == StepRet
       IN /\ Len(res.values) > 0 =>
               /\ ret.side = "Left"
               /\ \E i \in DOMAIN res.values : ret.val = from_str(res.values[i])
          /\ Len(res.values) = 0 /\ res.passed # 0 =>
               ret.side = "Right" /\ ret.val = TRUE
          /\ res.passed = 0 =>
               ret.side = "Right" /\ ret.val = FALSE
          /\ ncalls = 0 =>
               ret.side = "Right" /\ ret.val = FALSE]_vars

(* C15 happens: after validate(), take_value() has returned Left(None)    *)
(* for the value x, then Right(true).                                      *)
C15_Witness ==
  /\ Len(rets) = 2
  /\ \A i \in 1..2 : rets[i].op = "take_value" /\ rets[i].after > 0
  /\ rets[1].ret.side = "Left"
  /\ rets[1].ret.val = None
  /\ rets[2].ret.side = "Right"
  /\ rets[2].ret.val = TRUE

(* C15 happens also with a value that parses: Left(Some(12)), after a     *)
(* call made before validate() returned Right(false).                      *)
C15_WitnessParsed ==
  /\ Len(rets) = 2
  /\ rets[1].op = "take_value" /\ rets[1].after = 0
  /\ rets[1].ret.side = "Right"
  /\ rets[1].ret.val = FALSE
  /\ rets[2].op = "take_value"
  /\ rets[2].ret.side = "Left"
  /\ rets[2].ret.val = Some(12)

(* The parse outcomes of a sequence of captured values. *)
Parsed(vs) == [i \in DOMAIN vs |-> from_str(vs[i])]

(* The Res cell behind the handle of the i-th accessor call, and whether  *)
(* that call found the cell as validate() left it: it was made after      *)
(* validate() and no take_value() call on the same cell came before it.   *)
CellOfCall(i) == handles[rets[i].h].opt.result

FirstRead(i) ==
  /\ rets[i].after > 0
  /\ \A j \in 1..(i - 1) :
       rets[j].op = "take_value" => CellOfCall(j) # CellOfCall(i)

(* C16: after a successful validate(), take_values() on an option with a  *)
(* mandatory value that was passed N >= 1 times, by any of its names and  *)
(* with the value separate or after '=', returns Left of N entries: the   *)
(* parse outcome of each value given, in input order, None for a value    *)
(* that does not parse.                                                    *)
C16_TakeValuesRoundTrip ==
  Succeeded =>
    \A i \in DOMAIN rets :
      LET c == CellOfCall(i)
          n == Cardinality(ResolvedTo(c))
      IN /\ rets[i].op = "take_values"
         /\ FirstRead(i)
         /\ has_flag(handles[rets[i].h].opt, TakesArg)
         /\ n >= 1
         => /\ rets[i].ret.side = "Left"
            /\ Len(rets[i].ret.val) = n
            /\ rets[i].ret.val = Parsed(ValuesTaken(c, 1))

(* C16 happens: -a 12 --aa=x has given Left([Some(12), None]). *)
C16_Witness ==
  /\ Succeeded
  /\ \E i \in DOMAIN rets :
       /\ rets[i].op = "take_values"
       /\ has_flag(handles[rets[i].h].opt, TakesArg)
       /\ rets[i].ret.side = "Left"
       /\ rets[i].ret.val = <<Some(12), None>>
       /\ trace[1].tok.k = "Short"

(* C17: take_values() returns Right exactly when the option holds no      *)
(* captured value, and then with the number of times the option was       *)
(* passed; otherwise it returns Left with the parse outcomes of the       *)
(* values held, which for an option read for the first time are the       *)
(* values its occurrences captured, in input order, the occurrences       *)
(* without a value contributing nothing.                                   *)
C17_TakeValuesCount ==
  [][AccessorStep("take_values") =>
       LET c == handles[rets'[Len(rets')].h].opt.result
           res == StepCell
           ret == StepRet
       IN /\ ret.side = "Right" <=> Len(res.values) = 0
          /\ ret.side = "Right" =>
               /\ ret.val = count(handles[rets'[Len(rets')].h].opt)
               /\ ret.val = Cardinality(ResolvedTo(c))
          /\ ret.side = "Left" => ret.val = Parsed(res.values)
          /\ ret.side = "Left" /\ (\A j \in DOMAIN rets : rets[j].op # "take_value") =>
               ret.val = Parsed(ValuesTaken(c, 1))]_vars

(* C17 happens: an option with an optional value passed three times, the  *)
(* second time with a value, has given Left([Some(12)]); and one passed   *)
(* twice without a value has given Right(2).                               *)
C17_Witness ==
  /\ Succeeded
  /\ \E i \in DOMAIN rets :
       /\ rets[i].op = "take_values"
       /\ has_flag(handles[rets[i].h].opt, TakesOptionalArg)
       /\ count(handles[rets[i].h].opt) = 2
       /\ rets[i].ret.side = "Left"
       /\ rets[i].ret.val = <<Some(12)>>
       /\ ~TookValue(trace[1])

C17_WitnessCount ==
  /\ Succeeded
  /\ \E i \in DOMAIN rets :
       /\ rets[i].op = "take_values"
       /\ rets[i].ret.side = "Right"
       /\ rets[i].ret.val = 2

(* C18: when an option with a mandatory value was passed twice, with v1   *)
(* then v2, the first take_value() call after validate() returns v2 and   *)
(* the second returns v1.                                                  *)
C18_MostRecentFirst ==
  /\ Succeeded
  /\ Len(rets) = 2
  /\ \A i \in 1..2 : rets[i].op = "take_value" /\ rets[i].after > 0
  /\ rets[1].h = rets[2].h
  /\ has_flag(handles[rets[1].h].opt, TakesArg)
  /\ Len(ValuesTaken(CellOfCall(1), 1)) = 2
  => LET vs == ValuesTaken(CellOfCall(1), 1)
     IN /\ rets[1].ret.side = "Left" /\ rets[1].ret.val = from_str(vs[2])
        /\ rets[2].ret.side = "Left" /\ rets[2].ret.val = from_str(vs[1])

-----------------------------------------------------------------------------
(* Registration claims.                                                    *)

(* The i-th call recorded in regs is an add_option call. *)
IsAddOption(i) == regs[i].op = "add_option"

(* The i-th and the j-th recorded calls are add_option calls on the same  *)
(* scope that were given the same long name, or the same short name.       *)
SameLong(i, j) ==
  /\ IsSome(regs[i].long_name)
  /\ regs[i].long_name = regs[j].long_name

SameShort(i, j) ==
  /\ IsSome(regs[i].short_name)
  /\ regs[i].short_name = regs[j].short_name

Collide(i, j) ==
  /\ IsAddOption(i) /\ IsAddOption(j)
  /\ regs[i].scope = regs[j].scope
  /\ SameLong(i, j) \/ SameShort(i, j)

(* C19: an add_option call that is given a long name or a short name that *)
(* an earlier successful add_option call on the same scope was given       *)
(* returns an error, whichever of the two names collides and whichever of  *)
(* the two options was registered first.                                    *)
C19_NameCollisionFails ==
  \A j \in DOMAIN regs : \A i \in 1..(j - 1) :
    (Collide(i, j) /\ regs[i].res.ok) => ~regs[j].res.ok

(* C19 witness: the long name alone collides in one scope and the short   *)
(* name alone collides in another one, and both later calls have failed.   *)
C19_Witness ==
  \E i, j, k, l \in DOMAIN regs :
    /\ i < j /\ k < l
    /\ Collide(i, j) /\ regs[i].res.ok /\ ~regs[j].res.ok
    /\ SameLong(i, j) /\ ~SameShort(i, j)
    /\ Collide(k, l) /\ regs[k].res.ok /\ ~regs[l].res.ok
    /\ SameShort(k, l) /\ ~SameLong(k, l)

(* The LocalContext of a scope. *)
ScopeCtx(scope) ==
  IF IsSome(scope) THEN commands[scope[1]].inner_ctx ELSE inner_ctx

(* The scopes there are: the top level and the registered commands. *)
Scopes == {None} \cup {Some(n) : n \in DOMAIN commands}

(* This step is an add_option call on the scope that returns an error. *)
FailedAddOption(scope) ==
  /\ Len(regs') = Len(regs) + 1
  /\ regs'[Len(regs')].op = "add_option"
  /\ regs'[Len(regs')].scope = scope
  /\ ~regs'[Len(regs')].res.ok

(* C20: an add_option call that fails leaves the registry of its scope as *)
(* it was: the long and the short names it knew resolve to the options     *)
(* they resolved to, and it knows no other name.                            *)
C20_FailedAddOptionKeepsRegistry ==
  [][\A scope \in Scopes :
       FailedAddOption(scope) =>
         /\ ScopeCtx(scope)'.loptions = ScopeCtx(scope).loptions
         /\ ScopeCtx(scope)'.soptions = ScopeCtx(scope).soptions]_vars

(* This step is an add_option call. *)
AddOptionStep ==
  /\ Len(regs') = Len(regs) + 1
  /\ regs'[Len(regs')].op = "add_option"

(* The call this step makes, and what it returns. *)
StepCall == regs'[Len(regs')]

Nameless(call) == ~IsSome(call.long_name) /\ ~IsSome(call.short_name)

(* C21: an add_option call that is given neither a long nor a short name  *)
(* returns an error, whatever its flags, and registers nothing: every     *)
(* registry, the handles given out and the result cells are as before.     *)
C21_NamelessOptionFails ==
  [][(AddOptionStep /\ Nameless(StepCall)) =>
       /\ ~StepCall.res.ok
       /\ StepCall.res.fmt = "An option needs either a short or a long name"
       /\ UNCHANGED <<inner_ctx, commands, handles, results>>]_vars

(* C21 witness: such calls have been made at top level under two flag     *)
(* words, and inside a command, beside a registration that succeeded.      *)
C21_Witness ==
  /\ \E i, j \in DOMAIN regs :
       /\ IsAddOption(i) /\ Nameless(regs[i]) /\ ~regs[i].res.ok
       /\ IsAddOption(j) /\ Nameless(regs[j]) /\ ~regs[j].res.ok
       /\ regs[i].flags # regs[j].flags
  /\ Len(handles) = 1
  /\ ncalls = 1

(* C21, inside a command: the call made on a command fails too. *)
C21_WitnessInCommand ==
  \E i \in DOMAIN regs :
    /\ IsAddOption(i) /\ Nameless(regs[i]) /\ ~regs[i].res.ok
    /\ IsSome(regs[i].scope)

(* C22: an add_option call that is given a long name of fewer than two    *)
(* characters returns an error.                                             *)
C22_ShortLongNameFails ==
  \A i \in DOMAIN regs :
    (IsAddOption(i) /\ IsSome(regs[i].long_name) /\ Len(regs[i].long_name[1]) < 2)
      => ~regs[i].res.ok

(* The j-th recorded call is an add_option call, and no earlier           *)
(* add_option call on the same scope was given its long name or its       *)
(* short name.                                                              *)
NewInScope(j) ==
  /\ IsAddOption(j)
  /\ \A i \in 1..(j - 1) : ~Collide(i, j)

(* The i-th and the j-th recorded calls are add_option calls on different *)
(* scopes that were given the same names.                                   *)
SameNamesElsewhere(i, j) ==
  /\ IsAddOption(i) /\ IsAddOption(j)
  /\ regs[i].scope # regs[j].scope
  /\ regs[i].long_name = regs[j].long_name
  /\ regs[i].short_name = regs[j].short_name

(* C23: an add_option call that has a name succeeds when no earlier       *)
(* add_option call on its own scope was given either of its names,         *)
(* whatever the top level and the other commands have registered: a name   *)
(* is refused only against the names of the scope the call is made on.     *)
C23_NamesArePerScope ==
  \A j \in DOMAIN regs :
    (NewInScope(j) /\ ~Nameless(regs[j])) => regs[j].res.ok

(* C23 witness: the same name has been registered with success at top     *)
(* level and in two commands.                                               *)
C23_Witness ==
  \E i, j, k \in DOMAIN regs :
    /\ SameNamesElsewhere(i, j) /\ SameNamesElsewhere(j, k)
    /\ SameNamesElsewhere(i, k)
    /\ regs[i].res.ok /\ regs[j].res.ok /\ regs[k].res.ok
    /\ ~IsSome(regs[i].scope)

(* C23, the refusal: a name held by two scopes is refused when one of    *)
(* the two is given it a second time.                                       *)
C23_WitnessRefused ==
  \E i, j, k \in DOMAIN regs :
    /\ i < j /\ j < k
    /\ SameNamesElsewhere(i, j) /\ regs[i].res.ok /\ regs[j].res.ok
    /\ Collide(j, k) /\ ~regs[k].res.ok

(* The i-th recorded call is an add_command call. *)
IsAddCommand(i) == regs[i].op = "add_command"

(* The i-th and the j-th recorded calls are add_command calls that were   *)
(* given the same name.                                                     *)
SameCommand(i, j) ==
  /\ IsAddCommand(i) /\ IsAddCommand(j)
  /\ regs[i].name = regs[j].name

(* C24: an add_command call that is given the name of an earlier,         *)
(* successful add_command call returns an error, so that at most one       *)
(* successful call, and at most one handle, exists for a command name.     *)
C24_CommandNameOnce ==
  /\ \A j \in DOMAIN regs : \A i \in 1..(j - 1) :
       (SameCommand(i, j) /\ regs[i].res.ok) =>
         /\ ~regs[j].res.ok
         /\ regs[j].res.fmt = "This command was already added"
  /\ \A h, k \in DOMAIN cmd_handles :
       cmd_handles[h].name = cmd_handles[k].name => h = k
  /\ \A n \in DOMAIN commands :
       \E i \in DOMAIN regs : IsAddCommand(i) /\ regs[i].name = n /\ regs[i].res.ok

(* C24 witness: a command name was given twice and refused the second     *)
(* time, and another command was added after that.                         *)
C24_Witness ==
  \E i, j, k \in DOMAIN regs :
    /\ i < j /\ j < k
    /\ SameCommand(i, j) /\ regs[i].res.ok /\ ~regs[j].res.ok
    /\ IsAddCommand(k) /\ regs[k].name # regs[i].name /\ regs[k].res.ok

(* This step is an add_command call that returns an error. *)
FailedAddCommand ==
  /\ Len(regs') = Len(regs) + 1
  /\ regs'[Len(regs')].op = "add_command"
  /\ ~regs'[Len(regs')].res.ok

(* C25: an add_command call that fails leaves the commands as they were:  *)
(* the command registered under the name keeps its options and its        *)
(* selection cell, the one behind the handle the successful call returned. *)
C25_FailedAddCommandKeepsCommand ==
  [][FailedAddCommand =>
       /\ commands' = commands
       /\ \A h \in DOMAIN cmd_handles :
            commands'[cmd_handles[h].name].result = cmd_handles[h].result]_vars

-----------------------------------------------------------------------------
(* Tokenizer claims.  Context::new stores the tokens in raw_args, where    *)
(* they stay until the first validate() call.                               *)

IsLongArg(arg) == Len(arg) >= 2 /\ arg[1] = "-" /\ arg[2] = "-"

IsShortArg(arg) == Len(arg) >= 1 /\ arg[1] = "-" /\ ~IsLongArg(arg)

(* The position of the first '=' of arg after its first two characters,   *)
(* 0 when there is none.                                                    *)
FirstEq(arg) ==
  LET eqs == {i \in 3..Len(arg) : arg[i] = "="}
  IN IF eqs = {} THEN 0 ELSE CHOOSE i \in eqs : \A m \in eqs : i <= m

(* The tokens the claims give to one argument. *)
LongTokens(arg) ==
  IF FirstEq(arg) = 0
  THEN << [k |-> "Long", v |-> SubSeq(arg, 3, Len(arg))] >>
  ELSE << [k |-> "Long", v |-> SubSeq(arg, 3, FirstEq(arg) - 1)],
          [k |-> "Neither", v |-> SubSeq(arg, FirstEq(arg) + 1, Len(arg))] >>

ShortTokens(arg) == [i \in 1..(Len(arg) - 1) |-> [k |-> "Short", v |-> <<arg[i + 1]>>]]

BareTokens(arg) == << [k |-> "Neither", v |-> arg] >>

TokenCount(arg) ==
  IF IsLongArg(arg) THEN (IF FirstEq(arg) = 0 THEN 1 ELSE 2)
  ELSE IF IsShortArg(arg) THEN Len(arg) - 1
  ELSE 1

(* The number of tokens of the arguments before the p-th element of args, *)
(* the program name giving none.                                            *)
RECURSIVE TokensBefore(_)
TokensBefore(p) ==
  IF p <= 2 THEN 0 ELSE TokensBefore(p - 1) + TokenCount(args[p - 1])

(* The tokens of the stream that the p-th element of args stands for. *)
TokensOf(p) ==
  SubSeq(raw_args, TokensBefore(p) + 1, TokensBefore(p) + TokenCount(args[p]))

(* C26: before validate() is called, every argument that starts with "--" *)
(* stands in the stream for a long token named by the text between the    *)
(* "--" and the first '=' (or the end), followed, only when there is a     *)
(* '=', by one bare token holding everything after that first '='.         *)
C26_LongArgumentTokens ==
  ncalls = 0 =>
    \A p \in 2..Len(args) :
      IsLongArg(args[p]) =>
        /\ TokensBefore(p) + TokenCount(args[p]) <= Len(raw_args)
        /\ TokensOf(p) = LongTokens(args[p])

(* C26 witness: "--a=b=c" after a group of two short flags, with an       *)
(* option registered: the long token a, then the bare token "b=c".         *)
C26_Witness ==
  /\ ncalls = 0 /\ nregs > 0
  /\ Len(args) = 4
  /\ args[2] = <<"-", "a", "b">>
  /\ args[3] = <<"-", "-", "a", "=", "b", "=", "c">>
  /\ IsLongArg(args[4]) /\ FirstEq(args[4]) = 0
  /\ raw_args[3] = [k |-> "Long", v |-> <<"a">>]
  /\ raw_args[4] = [k |-> "Neither", v |-> <<"b", "=", "c">>]
  /\ Len(raw_args) = 5 /\ raw_args[5].k = "Long"

(* C27: before validate() is called, the stream is made of the tokens of  *)
(* the arguments in the order of the arguments and of nothing else, the    *)
(* program name giving none: an argument that starts with one '-' stands   *)
(* for one short token per character after it, in order, and an argument   *)
(* that does not start with '-' for one bare token.                         *)
C27_TokenizerKeepsOrder ==
  ncalls = 0 =>
    /\ Len(raw_args) = TokensBefore(Len(args) + 1)
    /\ \A p \in 2..Len(args) :
         /\ IsShortArg(args[p]) => TokensOf(p) = ShortTokens(args[p])
         /\ (~IsShortArg(args[p]) /\ ~IsLongArg(args[p]))
              => TokensOf(p) = BareTokens(args[p])

(* C27 witness: a bare value holding '=', a group of two short flags and  *)
(* a lone "-", in that order: three tokens, none for the program name or   *)
(* for the lone "-".                                                         *)
C27_Witness ==
  /\ ncalls = 0 /\ nregs > 0
  /\ args = <<Prog, <<"a", "=", "b">>, <<"-", "a", "b">>, <<"-">> >>
  /\ raw_args = << [k |-> "Neither", v |-> <<"a", "=", "b">>],
                   [k |-> "Short", v |-> <<"a">>],
                   [k |-> "Short", v |-> <<"b">>] >>

-----------------------------------------------------------------------------
(* Life cycle claims.                                                       *)

(* The event is a bare value read at top level, with no leftover pending, *)
(* that is the name of the command whose selection cell is c.              *)
SelectsCell(e, c) ==
  /\ ~IsSome(e.scope)
  /\ CommandMatch(e)
  /\ e.pending = << >>
  /\ MatchedCmd(e).result = c

Captured(e) == Len(e.cell1.values) - Len(e.cell0.values)

RECURSIVE CapturedUpTo(_)
CapturedUpTo(i) == IF i = 0 THEN 0 ELSE CapturedUpTo(i - 1) + Captured(trace[i])

(* s is what is left of t after some of its first elements are removed. *)
IsSuffix(s, t) ==
  /\ Len(s) <= Len(t)
  /\ s = SubSeq(t, Len(t) - Len(s) + 1, Len(t))

(* C29: every iteration of the scan, at top level or in a command, takes  *)
(* one token off the stream, and what its arm leaves is a suffix of that;  *)
(* the stream is always a suffix of the tokens of the arguments, each of   *)
(* which was popped by an iteration, captured as a value, or is still in   *)
(* the stream, so that the iterations are no more than the tokens; every   *)
(* call has returned Ok or an error, and Ok only with an empty stream.     *)
C29_ValidateTerminates ==
  /\ \A i \in DOMAIN trace :
       /\ IsSuffix(trace[i].rest1, trace[i].rest)
       /\ IsSuffix(<<trace[i].tok>> \o trace[i].rest, prep_args(args))
       /\ i > 1 => Len(trace[i].rest) < Len(trace[i - 1].rest)
  /\ IsSuffix(raw_args, prep_args(args))
  /\ Len(trace) + CapturedUpTo(Len(trace)) + Len(raw_args) = Len(prep_args(args))
  /\ ncalls > 0 => IsSome(last)
  /\ Succeeded => raw_args = << >>

(* C29 witness: validate() has returned Ok after iterations at top level  *)
(* and inside a command, one of which captured a value.                    *)
C29_Witness ==
  /\ Succeeded
  /\ Len(prep_args(args)) = MaxArgs
  /\ \E i, j \in DOMAIN trace :
       /\ ~IsSome(trace[i].scope) /\ IsSome(trace[j].scope)
  /\ CapturedUpTo(Len(trace)) = 1

(* C29, the failing call: validate() has returned an error and part of    *)
(* the stream was not read.                                                 *)
C29_WitnessFailed ==
  /\ IsSome(last) /\ ~last[1].ok
  /\ Len(trace) > 1
  /\ raw_args # << >>

(* This step is a validate() call made after a validate() call that      *)
(* returned Ok.                                                              *)
ValidateAgain ==
  /\ ncalls' = ncalls + 1
  /\ Succeeded

(* C30: a validate() call made after one that returned Ok returns Ok and  *)
(* leaves the count and the values of every option, the selection cell of  *)
(* every command and the leftover list as they were.                        *)
C30_ValidateIdempotent ==
  [][ValidateAgain =>
       /\ last'[1].ok
       /\ UNCHANGED <<results, cmd_results, residual_args>>]_vars

(* C30 witness: validate() was called twice on a command line that        *)
(* counted an option, selected a command and left a leftover.              *)
C30_Witness ==
  /\ ncalls = 2 /\ Succeeded
  /\ \E c \in DOMAIN results : results[c].passed > 0
  /\ \E c \in DOMAIN cmd_results : cmd_results[c]
  /\ residual_args # << >>

-----------------------------------------------------------------------------
(* Whole-run claims.                                                        *)

(* The tokens of the input, and how many of them are flags, bare values. *)
InputTokens == prep_args(args)

FlagTokenCount == Cardinality({i \in DOMAIN InputTokens : option(InputTokens[i])})

BareTokenCount == Cardinality({i \in DOMAIN InputTokens : ~option(InputTokens[i])})

(* The sum of count(), and the number of values held, over the options    *)
(* whose handles add_option returned, top level and commands together.     *)
RECURSIVE SumOfCounts(_)
SumOfCounts(k) ==
  IF k = 0 THEN 0
  ELSE SumOfCounts(k - 1) + results[handles[k].opt.result].passed

RECURSIVE SumOfValues(_)
SumOfValues(k) ==
  IF k = 0 THEN 0
  ELSE SumOfValues(k - 1) + Len(results[handles[k].opt.result].values)

SelectedCommands == Cardinality({c \in DOMAIN cmd_results : cmd_results[c]})

(* Every add_option call made has returned Ok. *)
AllOptionsRegistered ==
  \A i \in DOMAIN regs : IsAddOption(i) => regs[i].res.ok

(* C31: when validate() has returned Ok and every add_option call has     *)
(* succeeded, the counts of all options add up to the number of flag       *)
(* tokens of the input, and the bare tokens of the input are as many as    *)
(* the values the options hold, the commands selected and the leftovers    *)
(* together.                                                                 *)
C31_TokenConservation ==
  (Succeeded /\ AllOptionsRegistered) =>
    /\ SumOfCounts(Len(handles)) = FlagTokenCount
    /\ BareTokenCount = SumOfValues(Len(handles)) + SelectedCommands + Len(residual_args)

(* C31 witness: an Ok run over three tokens, with options at top level    *)
(* and in a command: a flag counted, a command selected and a value        *)
(* captured inside it.                                                       *)
C31_Witness ==
  /\ Succeeded /\ AllOptionsRegistered
  /\ Len(InputTokens) = MaxArgs
  /\ FlagTokenCount > 0
  /\ SelectedCommands = 1
  /\ SumOfValues(Len(handles)) = 1
  /\ \E h \in DOMAIN handles : IsSome(handles[h].scope)

(* C31, the leftovers: an Ok run in which a leftover follows a flag. *)
C31_WitnessLeftover ==
  /\ Succeeded /\ AllOptionsRegistered
  /\ FlagTokenCount > 0
  /\ Len(residual_args) > 0

(* The event is the flag of an option that takes a value, read at top     *)
(* level, and the token after it is the bare name of a registered command. *)
FlagThenCommandName(e) ==
  /\ ~IsSome(e.scope)
  /\ Matched(e, TakesArg + TakesOptionalArg)
  /\ NextIsValue(e)
  /\ value(Head(e.rest)) \in DOMAIN commands

(* The token after the i-th event's was taken as the option's value and   *)
(* was not read as a command: the next iteration, if any, pops the token   *)
(* that follows it, and the command is not selected unless another token   *)
(* selected it.                                                              *)
ValueNotCommand(i) ==
  LET e == trace[i]
      cell == commands[value(Head(e.rest))].result
  IN /\ TookValue(e)
     /\ e.arm.ok
     /\ i < Len(trace) =>
          <<trace[i + 1].tok>> \o trace[i + 1].rest = Tail(e.rest)
     /\ (\A j \in DOMAIN trace : ~SelectsCell(trace[j], cell))
          => ~cmd_results[cell]

(* C32, as stated: a bare token that follows the flag of an option taking *)
(* a mandatory or an optional value is always taken as the option's value, *)
(* also when it is the name of a registered command, which it does not     *)
(* select.                                                                   *)
C32_ValueBeforeCommand ==
  \A i \in DOMAIN trace :
    FlagThenCommandName(trace[i]) => ValueNotCommand(i)

(* C32, amended: the same, for an option matched with no leftover pending *)
(* and that is not a Unique option matched again.                           *)
C32_ValueBeforeCommandAtValueStage ==
  \A i \in DOMAIN trace :
    (FlagThenCommandName(trace[i]) /\ ReachesValueStage(trace[i]))
      => ValueNotCommand(i)

(* C32 witness: the long flag of a mandatory-value option followed by the *)
(* name of command c: validate() returned Ok, the option holds "c" and the *)
(* command is not selected.                                                  *)
C32_Witness ==
  /\ Succeeded
  /\ \E i \in DOMAIN trace :
       /\ FlagThenCommandName(trace[i])
       /\ Matched(trace[i], TakesArg)
       /\ ValueNotCommand(i)
       /\ trace[i].cell1.values = << <<"c">> >>
  /\ \A c \in DOMAIN cmd_results : ~cmd_results[c]
  /\ cmd_handles # << >>

(* C32, the optional value: the same with an option whose value is        *)
(* optional, the command name being given once more and selecting the      *)
(* command then.                                                             *)
C32_WitnessOptional ==
  /\ Succeeded
  /\ \E i \in DOMAIN trace :
       /\ FlagThenCommandName(trace[i])
       /\ ~Matched(trace[i], TakesArg)
       /\ ValueNotCommand(i)
       /\ i < Len(trace)
       /\ SelectsCell(trace[i + 1], commands[value(Head(trace[i].rest))].result)

(* The last event of the trace: the token validate() failed at. *)
LastEvent == trace[Len(trace)]

(* validate() has failed at a token that resolved to an option or to a    *)
(* command while leftovers were pending.                                    *)
FailedOnPending ==
  /\ Failed
  /\ trace # << >>
  /\ LastEvent.found
  /\ LastEvent.pending # << >>

(* C33: when validate() fails at an option or a command read while        *)
(* leftovers are pending, the error is the unexpected-argument error, it   *)
(* names the first of the leftovers then pending, and the leftover list    *)
(* has lost that element only.                                              *)
C33_NamesOldestLeftover ==
  FailedOnPending =>
    /\ last[1] = Err(FmtUnexpectedArgument, Head(LastEvent.pending))
    /\ residual_args = Tail(LastEvent.pending)

-----------------------------------------------------------------------------
(* Accessor effects.                                                        *)

(* The index of the Res cell behind the handle this step's call is made   *)
(* on.                                                                       *)
StepCellIndex == handles[rets'[Len(rets')].h].opt.result

(* vs without its i-th element. *)
RemoveAt(vs, i) == SubSeq(vs, 1, i - 1) \o SubSeq(vs, i + 1, Len(vs))

ReadOnly == {"check", "count", "take_values"}

(* C34: a take_value() call on an option that holds values returns the    *)
(* parse of one of them and removes that one and nothing else; on an       *)
(* option that holds none it removes nothing; in both cases the count is   *)
(* kept and the other cells are untouched.  An option that holds a value   *)
(* has a count above zero, so that once its values are handed out          *)
(* take_value() returns Right(true) and take_values() Right(count).        *)
(* check(), count() and take_values() change nothing, and two calls of the *)
(* same one on the same handle, one after the other, return the same.      *)
C34_AccessorEffects ==
  /\ [][AccessorStep("take_value") =>
         LET c == StepCellIndex
             res == results[c]
         IN /\ \A d \in DOMAIN results : d # c => results'[d] = results[d]
            /\ results'[c].passed = res.passed
            /\ IF Len(res.values) > 0
               THEN /\ StepRet.side = "Left"
                    /\ \E i \in DOMAIN res.values :
                         /\ StepRet.val = from_str(res.values[i])
                         /\ results'[c].values = RemoveAt(res.values, i)
               ELSE /\ results'[c] = res
                    /\ StepRet.side = "Right"
                    /\ StepRet.val = (res.passed # 0)
            /\ UNCHANGED <<raw_args, residual_args, cmd_results>>]_vars
  /\ [][(\E op \in ReadOnly : AccessorStep(op)) =>
         /\ UNCHANGED <<results, raw_args, residual_args, cmd_results>>
         /\ (AccessorStep("take_values") /\ Len(StepCell.values) = 0) =>
              StepRet.side = "Right" /\ StepRet.val = StepCell.passed]_vars
  /\ [](\A c \in DOMAIN results :
          Len(results[c].values) > 0 => results[c].passed > 0)
  /\ [](\A i \in DOMAIN rets :
          (/\ i > 1
           /\ rets[i].op \in ReadOnly
           /\ rets[i - 1].op = rets[i].op
           /\ rets[i - 1].h = rets[i].h
           /\ rets[i - 1].after = rets[i].after)
            => rets[i - 1].ret = rets[i].ret)

(* C34 witness: an option that captured one value: take_value() handed it *)
(* out, and the next take_value() returned Right(true).                     *)
C34_Witness ==
  /\ Len(rets) = 2
  /\ rets[1].op = "take_value" /\ rets[2].op = "take_value"
  /\ rets[1].h = rets[2].h
  /\ rets[1].ret.side = "Left"
  /\ rets[2].ret.side = "Right"
  /\ rets[2].ret.val = TRUE
  /\ results[handles[rets[1].h].opt.result].passed = 2

(* C34, the readers: take_values() called twice on an option holding two  *)
(* values, which it still holds.                                             *)
C34_WitnessTakeValues ==
  /\ Len(rets) = 2
  /\ rets[1].op = "take_values" /\ rets[2].op = "take_values"
  /\ rets[1].h = rets[2].h
  /\ rets[1].ret.side = "Left" /\ rets[2].ret.side = "Left"
  /\ Len(results[handles[rets[1].h].opt.result].values) = 2

(* C34, the readers: count() called twice after validate() on an option   *)
(* passed twice.                                                             *)
C34_WitnessCount ==
  /\ Len(rets) = 2
  /\ rets[1].op = "count" /\ rets[2].op = "count"
  /\ rets[1].h = rets[2].h
  /\ rets[1].ret = 2 /\ rets[2].ret = 2

====
